---- MODULE Spec2Model ----
(***************************************************************************)
(* Model of the intent-embedding generation pipeline of                    *)
(* Tools/AVA/embedding-generator/generate_embeddings.py.                   *)
(*                                                                         *)
(* Python strings are modelled as sequences of one-character strings, so   *)
(* that slicing, stripping, splitting and prefixing are computed and not   *)
(* assumed.  Python dicts that are iterated (the intent tables) are        *)
(* modelled as a record of the key order and the key -> value function.    *)
(***************************************************************************)
EXTENDS Integers, Sequences, FiniteSets, TLC

VARIABLES
    mode,        \* which part of the program this behaviour exercises
    tok,         \* the BertTokenizer object (its fields)
    text,        \* the argument of the tokenize call(s)
    out,         \* the value returned by the last tokenize call
    calls,       \* number of tokenize calls made on tok so far
    files,       \* load_ava_files: the contents of the files found, in iteration order
    file_idx,    \* load_ava_files: number of files the loop has processed
    all_intents, \* load_ava_files: the accumulated intent table
    total_files, \* load_ava_files: its counter of files that yielded intents
    last_call,   \* what the last parser call or loop iteration did (observation)
    pc,          \* main: the statement it has reached
    argv,        \* main: the command-line arguments and whether the model files load
    onnx,        \* the inference session: for each text, whether run raises and its rows
    intent_idx,  \* main: number of intents the embedding loop has processed
    session_runs, \* the inference session: the texts run was called on, in call order
    main_embeddings, \* main: the dict embeddings (intent id -> embedding, example count)
    disk,        \* the filesystem the outputs are written to
    wall_clock,  \* the clock generate_sql reads
    buffer,      \* the bytes handed to decode
    decoded      \* the outcome of decode

tokvars == <<tok, text, out, calls>>
loadvars == <<files, file_idx, all_intents, total_files, last_call>>
mainvars == <<pc, argv, onnx, intent_idx, session_runs, main_embeddings, disk, wall_clock>>
codecvars == <<buffer, decoded>>
vars == <<mode, tok, text, out, calls, files, file_idx,
          all_intents, total_files, last_call,
          pc, argv, onnx, intent_idx, session_runs, main_embeddings, disk, wall_clock,
          buffer, decoded>>

(***************************************************************************)
(* Python str / list primitives                                            *)
(***************************************************************************)

\* str.isspace() characters of the model alphabet
Whitespace == {" ", "\t", "\n"}

\* cased characters of the model alphabet: <<upper, lower>>
CasePairs ==
    {<<"A", "a">>, <<"B", "b">>, <<"V", "v">>, <<"C", "c">>, <<"M", "m">>,
     <<"T", "t">>, <<"U", "u">>, <<"R", "r">>, <<"N", "n">>, <<"O", "o">>, <<"W", "w">>,
     <<"I", "i">>, <<"F", "f">>, <<"X", "x">>, <<"Y", "y">>, <<"E", "e">>, <<"G", "g">>,
     <<"P", "p">>}
UpperChars == {p[1] : p \in CasePairs}
LowerChars == {p[2] : p \in CasePairs} \cup {"t", "u", "r", "n", "o", "w", "i", "f", "x", "y", "e"}

lower_char(c) == IF c \in UpperChars THEN (CHOOSE p \in CasePairs : p[1] = c)[2] ELSE c

\* str.lower()
lower(s) == [i \in 1..Len(s) |-> lower_char(s[i])]

\* str.strip(): drop leading and trailing whitespace
strip(s) ==
    LET keep == {i \in 1..Len(s) : s[i] \notin Whitespace}
    IN IF keep = {} THEN <<>>
       ELSE LET first == CHOOSE i \in keep : \A j \in keep : i <= j
                last == CHOOSE i \in keep : \A j \in keep : j <= i
            IN SubSeq(s, first, last)

\* str.split() with no argument: the maximal runs of non-whitespace, in order
split(s) ==
    LET n == Len(s)
        starts == {i \in 1..n : s[i] \notin Whitespace /\ (i = 1 \/ s[i - 1] \in Whitespace)}
        nth(k) == CHOOSE i \in starts : Cardinality({j \in starts : j < i}) = k - 1
        stop(i) == CHOOSE j \in i..n :
                      /\ \A k \in i..j : s[k] \notin Whitespace
                      /\ (j = n \/ s[j + 1] \in Whitespace)
    IN [k \in 1..Cardinality(starts) |-> SubSeq(s, nth(k), stop(nth(k)))]

\* [x] * n: the empty list when n <= 0
Repeat(x, n) == [i \in 1..n |-> x]

\* lst[:n] for n >= 0
Take(lst, n) == SubSeq(lst, 1, IF n < Len(lst) THEN n ELSE Len(lst))

\* d[k] = v on a dict modelled as a function
DictSet(d, k, v) == [x \in (DOMAIN d) \cup {k} |-> IF x = k THEN v ELSE d[x]]

\* d.get(k, default)
DictGet(d, k, default) == IF k \in DOMAIN d THEN d[k] ELSE default

EmptyDict == << >>

\* all sequences over S of length at most n
SeqsUpTo(S, n) == UNION {[1..k -> S] : k \in 0..n}

IsInjective(f) == \A i, j \in DOMAIN f : f[i] = f[j] => i = j

\* the elements of lst at the positions of P, in order
SelectAt(lst, P) ==
    LET nth(k) == CHOOSE i \in P : Cardinality({j \in P : j < i}) = k - 1
    IN [k \in 1..Cardinality(P) |-> lst[nth(k)]]

(***************************************************************************)
(* BertTokenizer                                                           *)
(***************************************************************************)

CLS == <<"[", "C", "L", "S", "]">>
SEP == <<"[", "S", "E", "P", "]">>
PAD == <<"[", "P", "A", "D", "]">>
UNK == <<"[", "U", "N", "K", "]">>

\* fallback ids of __init__ and the sequence length
DefaultClsId == 101
DefaultSepId == 102
DefaultPadId == 0
DefaultUnkId == 100
max_length == 128

\* the loop of __init__ over the lines of the vocabulary file
RECURSIVE load_vocab(_, _, _)
load_vocab(lines, idx, acc) ==
    IF idx >= Len(lines) THEN acc
    ELSE LET token == strip(lines[idx + 1])
         IN load_vocab(lines, idx + 1,
                       [vocab |-> DictSet(acc.vocab, token, idx),
                        inv_vocab |-> DictSet(acc.inv_vocab, idx, token)])

\* BertTokenizer.__init__(vocab_path), given the lines of the file
BertTokenizer_init(lines) ==
    LET maps == load_vocab(lines, 0, [vocab |-> EmptyDict, inv_vocab |-> EmptyDict])
    IN [vocab |-> maps.vocab,
        inv_vocab |-> maps.inv_vocab,
        cls_token_id |-> DictGet(maps.vocab, CLS, DefaultClsId),
        sep_token_id |-> DictGet(maps.vocab, SEP, DefaultSepId),
        pad_token_id |-> DictGet(maps.vocab, PAD, DefaultPadId),
        unk_token_id |-> DictGet(maps.vocab, UNK, DefaultUnkId),
        max_length |-> max_length]

\* a lookup that forgets the continuation marker (mutant of wp_substr)
wp_substr_unmarked(word, start, end) == SubSeq(word, start + 1, end)

\* the candidate looked up at (start, end): word[start:end], '##'-prefixed after position 0
wp_substr(word, start, end) ==
    IF start > 0 THEN <<"#", "#">> \o SubSeq(word, start + 1, end)
    ELSE SubSeq(word, start + 1, end)

\* inner loop of _wordpiece: shrink end until word[start:end] is in the vocabulary
RECURSIVE wp_inner(_, _, _, _)
wp_inner(self, word, start, end) ==
    IF ~(start < end) THEN [found |-> FALSE, cur_token |-> 0, end |-> end]
    ELSE IF wp_substr(word, start, end) \in DOMAIN self.vocab
         THEN [found |-> TRUE, cur_token |-> self.vocab[wp_substr(word, start, end)], end |-> end]
         ELSE wp_inner(self, word, start, end - 1)

\* an outer loop that steps over two characters when nothing matches (mutant of wp_outer)
RECURSIVE wp_outer_unk_skips(_, _, _, _)
wp_outer_unk_skips(self, word, start, tokens) ==
    IF ~(start < Len(word)) THEN tokens
    ELSE LET m == wp_inner(self, word, start, Len(word))
         IN IF ~m.found
            THEN wp_outer_unk_skips(self, word, start + 2, Append(tokens, self.unk_token_id))
            ELSE wp_outer_unk_skips(self, word, m.end, Append(tokens, m.cur_token))

\* outer loop of _wordpiece
RECURSIVE wp_outer(_, _, _, _)
wp_outer(self, word, start, tokens) ==
    IF ~(start < Len(word)) THEN tokens
    ELSE LET m == wp_inner(self, word, start, Len(word))
         IN IF ~m.found
            THEN wp_outer(self, word, start + 1, Append(tokens, self.unk_token_id))
            ELSE wp_outer(self, word, m.end, Append(tokens, m.cur_token))

\* BertTokenizer._wordpiece(word)
wordpiece(self, word) == wp_outer(self, word, 0, <<>>)

\* the ids one word contributes in tokenize's loop
word_ids(self, word) ==
    IF word \in DOMAIN self.vocab THEN <<self.vocab[word]>> ELSE wordpiece(self, word)

\* the loop of tokenize over the words
RECURSIVE tokenize_words(_, _, _, _)
tokenize_words(self, words, k, tokens) ==
    IF k > Len(words) THEN tokens
    ELSE tokenize_words(self, words, k + 1, tokens \o word_ids(self, words[k]))

\* tokenize cutting the framed list instead of the tokens (mutant of tokenize)
tokenize_cut_framed(self, txt) ==
    LET words == split(strip(lower(txt)))
        tokens == tokenize_words(self, words, 1, <<>>)
        framed == Take(<<self.cls_token_id>> \o tokens \o <<self.sep_token_id>>,
                       self.max_length)
        padding_length == self.max_length - Len(framed)
    IN [input_ids |-> framed \o Repeat(self.pad_token_id, padding_length),
        attention_mask |-> Repeat(1, Len(framed)) \o Repeat(0, padding_length),
        token_type_ids |-> Repeat(0, Len(framed)) \o Repeat(0, padding_length)]

\* tokenize without the truncation of line 77 (mutant of tokenize)
tokenize_no_truncate(self, txt) ==
    LET words == split(strip(lower(txt)))
        tokens == tokenize_words(self, words, 1, <<>>)
        framed == <<self.cls_token_id>> \o tokens \o <<self.sep_token_id>>
        padding_length == self.max_length - Len(framed)
    IN [input_ids |-> framed \o Repeat(self.pad_token_id, padding_length),
        attention_mask |-> Repeat(1, Len(framed)) \o Repeat(0, padding_length),
        token_type_ids |-> Repeat(0, Len(framed)) \o Repeat(0, padding_length)]

\* BertTokenizer.tokenize(text): the returned dict
tokenize(self, txt) ==
    LET words == split(strip(lower(txt)))
        tokens == tokenize_words(self, words, 1, <<>>)
        max_tokens == self.max_length - 2
        truncated == Take(tokens, max_tokens)
        framed == <<self.cls_token_id>> \o truncated \o <<self.sep_token_id>>
        padding_length == self.max_length - Len(framed)
    IN [input_ids |-> framed \o Repeat(self.pad_token_id, padding_length),
        attention_mask |-> Repeat(1, Len(framed)) \o Repeat(0, padding_length),
        token_type_ids |-> Repeat(0, Len(framed)) \o Repeat(0, padding_length)]

\* a tokenize that remembers the words it did not know (mutant of tokenize_self)
tokenize_self_learning(self, txt) ==
    LET words == split(strip(lower(txt)))
        unknown == {k \in 1..Len(words) : words[k] \notin DOMAIN self.vocab}
    IN IF unknown = {} THEN self
       ELSE [self EXCEPT !.vocab = DictSet(self.vocab, words[CHOOSE k \in unknown : TRUE],
                                           self.unk_token_id)]

\* BertTokenizer.tokenize(text): the tokenizer object after the call (nothing is assigned)
tokenize_self(self, txt) == self

(***************************************************************************)
(* More str primitives, used by the source-format parsers                  *)
(***************************************************************************)

\* str.split(sep) for a one-character sep: the pieces between the separators
SplitOn(s, sep) ==
    LET at == {i \in 1..Len(s) : s[i] = sep}
        m == Cardinality(at)
        cut(k) == IF k = 0 THEN 0
                  ELSE IF k = m + 1 THEN Len(s) + 1
                  ELSE CHOOSE i \in at : Cardinality({j \in at : j < i}) = k - 1
    IN [k \in 1..(m + 1) |-> SubSeq(s, cut(k - 1) + 1, cut(k) - 1)]

\* sep.join(parts)
RECURSIVE Join(_, _)
Join(parts, sep) ==
    IF parts = <<>> THEN <<>>
    ELSE IF Len(parts) = 1 THEN parts[1]
    ELSE parts[1] \o <<sep>> \o Join(Tail(parts), sep)

\* str.startswith(prefix)
startswith(s, prefix) == Len(s) >= Len(prefix) /\ SubSeq(s, 1, Len(prefix)) = prefix

\* c in s, for a character c
HasChar(s, c) == \E i \in 1..Len(s) : s[i] = c

\* str.isupper(): at least one cased character and no lowercase one
isupper(s) ==
    /\ \E i \in 1..Len(s) : s[i] \in UpperChars
    /\ \A i \in 1..Len(s) : s[i] \notin LowerChars

(***************************************************************************)
(* Python values as json.loads returns them: a record whose one field      *)
(* names the type.  An object is the sequence of its <<key, value>> pairs. *)
(***************************************************************************)

Str(c) == [str |-> c]
Num(n) == [num |-> n]
Null == [null |-> 0]
List(items) == [list |-> items]
Obj(pairs) == [obj |-> pairs]

\* type(v)
TypeOf(v) == CHOOSE k \in DOMAIN v : TRUE

\* bool(v)
Truthy(v) ==
    CASE TypeOf(v) = "str" -> v.str # <<>>
      [] TypeOf(v) = "num" -> v.num # 0
      [] TypeOf(v) = "null" -> FALSE
      [] TypeOf(v) = "list" -> v.list # <<>>
      [] OTHER -> v.obj # <<>>

\* d.get(key, default) on a dict
ObjGet(d, key, default) ==
    LET at == {i \in 1..Len(d.obj) : d.obj[i][1] = key}
    IN IF at = {} THEN default ELSE d.obj[CHOOSE i \in at : TRUE][2]

\* whether iter(v) is defined, and the items it yields
Iterable(v) == TypeOf(v) \in {"list", "str", "obj"}
Items(v) ==
    CASE TypeOf(v) = "list" -> v.list
      [] TypeOf(v) = "str" -> [i \in 1..Len(v.str) |-> Str(<<v.str[i]>>)]
      [] OTHER -> [i \in 1..Len(v.obj) |-> Str(v.obj[i][1])]

\* whether hash(v) is defined
Hashable(v) == TypeOf(v) \notin {"list", "obj"}

(***************************************************************************)
(* Intent tables: Dict[str, List[str]], in insertion order                 *)
(***************************************************************************)

EmptyTable == [keys |-> <<>>, val |-> EmptyDict]

TableHas(t, k) == k \in DOMAIN t.val

\* t[k] = v
TableSet(t, k, v) ==
    [keys |-> IF TableHas(t, k) THEN t.keys ELSE Append(t.keys, k),
     val |-> DictSet(t.val, k, v)]

\* bool(t)
TableNonEmpty(t) == t.keys # <<>>

(***************************************************************************)
(* parse_ava_yaml_format                                                   *)
(***************************************************************************)

Delimiter == <<"-", "-", "-">>

\* ' ' in intent_type
type_has_space(intent_type) == HasChar(intent_type, " ")

\* a section test that accepts every section after the metadata (mutant of in_data_section)
in_data_section_open(delimiter_count) == delimiter_count >= 2

\* delimiter_count == 2
in_data_section(delimiter_count) == delimiter_count = 2

\* an example taken from the third part only (mutant of example_of)
example_third_part(parts) == strip(parts[3])

\* ':'.join(parts[2:]).strip()
example_of(parts) == strip(Join(SubSeq(parts, 3, Len(parts)), ":"))

\* one iteration of the loop over the lines; st is (intents, delimiter_count, accepted),
\* accepted being the log of the lines that reached the append of line 260
yaml_line(st, n, raw) ==
    LET line == strip(raw)
    IN IF line = <<>> \/ startswith(line, <<"#">>) THEN st
       ELSE IF line = Delimiter
            THEN [st EXCEPT !.delimiter_count = st.delimiter_count + 1]
       ELSE IF in_data_section(st.delimiter_count) /\ HasChar(line, ":")
            THEN LET parts == SplitOn(line, ":")
                 IN IF Len(parts) >= 3
                    THEN LET intent_type == strip(parts[1])
                             intent_id == strip(parts[2])
                             example == example_of(parts)
                         IN IF type_has_space(intent_type) THEN st
                            ELSE IF ~isupper(intent_type) THEN st
                            ELSE IF intent_id # <<>> /\ example # <<>>
                                 THEN [st EXCEPT
                                         !.intents = TableSet(st.intents, Str(intent_id),
                                             Append(IF TableHas(st.intents, Str(intent_id))
                                                    THEN st.intents.val[Str(intent_id)]
                                                    ELSE <<>>,
                                                    Str(example))),
                                         !.accepted = Append(st.accepted,
                                             [n |-> n, id |-> intent_id, example |-> example])]
                                 ELSE st
                    ELSE st
       ELSE st

RECURSIVE yaml_lines(_, _, _)
yaml_lines(st, lines, n) ==
    IF n > Len(lines) THEN st
    ELSE yaml_lines(yaml_line(st, n, lines[n]), lines, n + 1)

\* the state of parse_ava_yaml_format(content) at its return
yaml_run(content) ==
    yaml_lines([intents |-> EmptyTable, delimiter_count |-> 0, accepted |-> <<>>],
               SplitOn(content, "\n"), 1)

\* parse_ava_yaml_format(content): it has no raising operation
parse_ava_yaml_format(content) ==
    [raised |-> "none", intents |-> yaml_run(content).intents]

(***************************************************************************)
(* json.dumps (to write the input documents) and json.loads                *)
(***************************************************************************)

Digit(n) == <<"0", "1", "2", "3", "4", "5", "6", "7", "8", "9">>[n + 1]

\* the text of a value, as json.dumps(v, separators=(',', ':')) writes it
RECURSIVE dumps(_)
RECURSIVE dumps_items(_, _)
RECURSIVE dumps_pairs(_, _)
dumps(v) ==
    CASE TypeOf(v) = "str" -> <<"\"">> \o v.str \o <<"\"">>
      [] TypeOf(v) = "num" -> <<Digit(v.num)>>
      [] TypeOf(v) = "null" -> <<"n", "u", "l", "l">>
      [] TypeOf(v) = "list" -> <<"[">> \o dumps_items(v.list, 1) \o <<"]">>
      [] OTHER -> <<"{">> \o dumps_pairs(v.obj, 1) \o <<"}">>
dumps_items(items, k) ==
    IF k > Len(items) THEN <<>>
    ELSE (IF k > 1 THEN <<",">> ELSE <<>>) \o dumps(items[k]) \o dumps_items(items, k + 1)
dumps_pairs(pairs, k) ==
    IF k > Len(pairs) THEN <<>>
    ELSE (IF k > 1 THEN <<",">> ELSE <<>>) \o dumps(Str(pairs[k][1])) \o <<":">>
         \o dumps(pairs[k][2]) \o dumps_pairs(pairs, k + 1)

JSONDecodeError == [error |-> 0]

Digits == <<"0", "1", "2", "3", "4", "5", "6", "7", "8", "9">>
IsDigit(c) == \E d \in 1..10 : Digits[d] = c
DigitValue(c) == (CHOOSE d \in 1..10 : Digits[d] = c) - 1

\* the first position from p on that holds no whitespace (Len(s) + 1 when there is none)
SkipWs(s, p) ==
    CHOOSE q \in p..(Len(s) + 1) :
        /\ \A k \in p..(q - 1) : s[k] \in Whitespace
        /\ (q = Len(s) + 1 \/ s[q] \notin Whitespace)

\* the first position from p on that holds no digit
SkipDigits(s, p) ==
    CHOOSE q \in p..(Len(s) + 1) :
        /\ \A k \in p..(q - 1) : IsDigit(s[k])
        /\ (q = Len(s) + 1 \/ ~IsDigit(s[q]))

RECURSIVE NumberOf(_)
NumberOf(digits) ==
    IF digits = <<>> THEN 0
    ELSE 10 * NumberOf(SubSeq(digits, 1, Len(digits) - 1)) + DigitValue(digits[Len(digits)])

Fail == [ok |-> FALSE, val |-> Null, next |-> 0]
Parsed(v, next) == [ok |-> TRUE, val |-> v, next |-> next]

\* a dict with key set to value: a repeated key keeps its place and takes the last value
PairsSet(pairs, key, value) ==
    IF \E i \in 1..Len(pairs) : pairs[i][1] = key
    THEN [i \in 1..Len(pairs) |-> IF pairs[i][1] = key THEN <<key, value>> ELSE pairs[i]]
    ELSE Append(pairs, <<key, value>>)

\* the JSON decoder on the grammar of the model's documents: strings without escapes,
\* unsigned integers, null, arrays and objects; anything else is a decode error
RECURSIVE json_value(_, _)
RECURSIVE json_items(_, _, _)
RECURSIVE json_members(_, _, _)
json_string(s, p) ==
    IF p > Len(s) \/ s[p] # "\"" THEN Fail
    ELSE LET closing == {q \in (p + 1)..Len(s) : s[q] = "\""}
         IN IF closing = {} THEN Fail
            ELSE LET q == CHOOSE c \in closing : \A d \in closing : c <= d
                 IN Parsed(Str(SubSeq(s, p + 1, q - 1)), q + 1)
json_value(s, p0) ==
    LET p == SkipWs(s, p0)
    IN IF p > Len(s) THEN Fail
       ELSE IF s[p] = "\"" THEN json_string(s, p)
       ELSE IF IsDigit(s[p])
            THEN LET q == SkipDigits(s, p)
                 IN IF s[p] = "0" /\ q > p + 1 THEN Fail
                    ELSE Parsed(Num(NumberOf(SubSeq(s, p, q - 1))), q)
       ELSE IF s[p] = "n"
            THEN IF SubSeq(s, p, p + 3) = <<"n", "u", "l", "l">> THEN Parsed(Null, p + 4)
                 ELSE Fail
       ELSE IF s[p] = "["
            THEN LET q == SkipWs(s, p + 1)
                 IN IF q <= Len(s) /\ s[q] = "]" THEN Parsed(List(<<>>), q + 1)
                    ELSE json_items(s, q, <<>>)
       ELSE IF s[p] = "{"
            THEN LET q == SkipWs(s, p + 1)
                 IN IF q <= Len(s) /\ s[q] = "}" THEN Parsed(Obj(<<>>), q + 1)
                    ELSE json_members(s, q, <<>>)
       ELSE Fail
json_items(s, p, acc) ==
    LET r == json_value(s, p)
    IN IF ~r.ok THEN Fail
       ELSE LET q == SkipWs(s, r.next)
            IN IF q > Len(s) THEN Fail
               ELSE IF s[q] = "]" THEN Parsed(List(Append(acc, r.val)), q + 1)
               ELSE IF s[q] = "," THEN json_items(s, q + 1, Append(acc, r.val))
               ELSE Fail
json_members(s, p, acc) ==
    LET k == json_string(s, SkipWs(s, p))
    IN IF ~k.ok THEN Fail
       ELSE LET c == SkipWs(s, k.next)
            IN IF c > Len(s) \/ s[c] # ":" THEN Fail
               ELSE LET r == json_value(s, c + 1)
                    IN IF ~r.ok THEN Fail
                       ELSE LET q == SkipWs(s, r.next)
                                pairs == PairsSet(acc, k.val.str, r.val)
                            IN IF q > Len(s) THEN Fail
                               ELSE IF s[q] = "}" THEN Parsed(Obj(pairs), q + 1)
                               ELSE IF s[q] = "," THEN json_members(s, q + 1, pairs)
                               ELSE Fail

\* json.loads(content)
json_loads(content) ==
    LET r == json_value(content, 1)
    IN IF r.ok /\ SkipWs(content, r.next) > Len(content) THEN r.val ELSE JSONDecodeError

\* the JSON documents of the input files (MaxEntries bounds their arrays)
MaxEntries == 2

Absent == [absent |-> 0]

\* an object of the given <<key, value>> pairs, leaving out the Absent ones
MkObj(pairs) == Obj(SelectAt(pairs, {i \in 1..Len(pairs) : pairs[i][2] # Absent}))

AEntry(id, smp, can) == MkObj(<< <<<<"i", "d">>, id>>, <<<<"s">>, smp>>, <<<<"c">>, can>> >>)

AEntries ==
    {AEntry(id, smp, Absent) :
        id \in {Absent, Str(<<>>), Str(<<"a">>), Str(<<"b">>)},
        smp \in {Absent, List(<<Str(<<"x">>)>>)}}
    \cup {AEntry(Str(<<"a">>), List(<<Str(<<"y">>), Str(<<"x">>)>>), Absent),
          AEntry(Str(<<"a">>), List(<<Str(<<"x">>)>>), Str(<<"x">>)),
          AEntry(Str(<<"a">>), List(<<Str(<<"y">>), Str(<<"x">>)>>), Str(<<"x">>)),
          AEntry(Str(<<"b">>), Absent, Str(<<"x">>)),
          AEntry(Str(<<"a">>), Num(5), Absent),
          AEntry(Str(<<"a">>), Str(<<"x", "y">>), Absent),
          Num(5)}

BCommand(act, cmd, syn) ==
    MkObj(<< <<<<"a", "c", "t", "i", "o", "n">>, act>>, <<<<"c", "m", "d">>, cmd>>,
             <<<<"s", "y", "n">>, syn>> >>)

BCommands ==
    {BCommand(act, cmd, Absent) :
        act \in {Absent, Str(<<"A">>), Str(<<"a">>), Str(<<"B">>)},
        cmd \in {Absent, Str(<<"x">>)}}
    \cup {BCommand(Str(<<"A">>), Str(<<"x">>), List(<<Str(<<"x">>)>>)),
          BCommand(Str(<<"A">>), Str(<<"x">>), List(<<Str(<<"y">>)>>)),
          BCommand(Str(<<"B">>), Str(<<"x">>), List(<<Str(<<"y">>)>>)),
          BCommand(Str(<<"A">>), Absent, List(<<Str(<<"y">>)>>)),
          BCommand(Str(<<"A">>), Str(<<"x">>), Str(<<"y">>)),
          BCommand(Str(<<"A">>), Str(<<"x">>), Null),
          Num(5)}

KeyI == <<"i">>
KeyCommands == <<"c", "o", "m", "m", "a", "n", "d", "s">>

ADocs == {Obj(<< <<KeyI, List(es)>> >>) : es \in SeqsUpTo(AEntries, MaxEntries)}
BDocs == {Obj(<< <<KeyCommands, List(cs)>> >>) : cs \in SeqsUpTo(BCommands, MaxEntries)}

\* documents with both arrays, with neither, with a field that is no array, and
\* documents that are no object
MixedDocs ==
    {Obj(<< <<KeyI, List(es)>>, <<KeyCommands, List(cs)>> >>) :
        es \in SeqsUpTo({MkObj(<< <<<<"i", "d">>, Str(<<"a">>)>> >>),
                         MkObj(<< <<<<"i", "d">>, Str(<<"a">>)>>,
                                  <<<<"s">>, List(<<Str(<<"x">>)>>)>> >>)}, 1),
        cs \in SeqsUpTo({MkObj(<< <<<<"a", "c", "t", "i", "o", "n">>, Str(<<"B">>)>>,
                                  <<<<"c", "m", "d">>, Str(<<"y">>)>> >>)}, 1)}
    \cup {Obj(<<>>),
          Obj(<< <<KeyI, Num(5)>> >>),
          Obj(<< <<KeyCommands, Num(5)>> >>),
          Obj(<< <<KeyCommands, Str(<<"x">>)>> >>),
          Num(5), Null, Str(<<"s">>), Str(<<"h", "i">>),
          List(<<Num(1)>>), List(<<Str(KeyI)>>)}

JsonUniverse == ADocs \cup BDocs \cup MixedDocs

JsonTexts == {dumps(v) : v \in JsonUniverse}

(***************************************************************************)
(* parse_ava_json_format (schema A) and parse_vos_json_format (schema B)   *)
(***************************************************************************)

Raise(kind) == [raised |-> kind, intents |-> EmptyTable]
Return(intents) == [raised |-> "none", intents |-> intents]

\* 'i' in data, for data a dict, a list or a str
contains_i(data) ==
    CASE TypeOf(data) = "obj" -> \E i \in 1..Len(data.obj) : data.obj[i][1] = KeyI
      [] TypeOf(data) = "list" -> \E i \in 1..Len(data.list) : data.list[i] = Str(KeyI)
      [] OTHER -> HasChar(data.str, "i")

\* the body of the loop over data['i'] with the canonical appended after the samples
\* (mutant of ava_json_entry)
ava_json_entry_canonical_last(acc, intent) ==
    IF acc.raised # "none" THEN acc
    ELSE IF TypeOf(intent) # "obj" THEN Raise("AttributeError")
    ELSE LET intent_id == ObjGet(intent, <<"i", "d">>, Str(<<>>))
             samples == ObjGet(intent, <<"s">>, List(<<>>))
             canonical == ObjGet(intent, <<"c">>, Str(<<>>))
         IN IF ~Truthy(intent_id) THEN acc
            ELSE IF ~Iterable(samples) THEN Raise("TypeError")
            ELSE LET examples == Items(samples)
                                 \o (IF Truthy(canonical) THEN <<canonical>> ELSE <<>>)
                 IN IF examples = <<>> THEN acc
                    ELSE IF ~Hashable(intent_id) THEN Raise("TypeError")
                    ELSE Return(TableSet(acc.intents, intent_id, examples))

\* the body of the loop over data['i']; acc is the function's outcome so far
ava_json_entry(acc, intent) ==
    IF acc.raised # "none" THEN acc
    ELSE IF TypeOf(intent) # "obj" THEN Raise("AttributeError")
    ELSE LET intent_id == ObjGet(intent, <<"i", "d">>, Str(<<>>))
             samples == ObjGet(intent, <<"s">>, List(<<>>))
             canonical == ObjGet(intent, <<"c">>, Str(<<>>))
         IN IF ~Truthy(intent_id) THEN acc
            ELSE IF ~Iterable(samples) THEN Raise("TypeError")
            ELSE LET examples == (IF Truthy(canonical) THEN <<canonical>> ELSE <<>>)
                                 \o Items(samples)
                 IN IF examples = <<>> THEN acc
                    ELSE IF ~Hashable(intent_id) THEN Raise("TypeError")
                    ELSE Return(TableSet(acc.intents, intent_id, examples))

RECURSIVE ava_json_entries(_, _, _)
ava_json_entries(acc, entries, k) ==
    IF k > Len(entries) THEN acc
    ELSE ava_json_entries(ava_json_entry(acc, entries[k]), entries, k + 1)

\* the handler of parse_ava_json_format: only json.JSONDecodeError is caught
ava_json_except(data) == data = JSONDecodeError

\* parse_ava_json_format(content)
parse_ava_json_format(content) ==
    LET data == json_loads(content)
    IN IF ava_json_except(data) THEN Return(EmptyTable)
       ELSE IF TypeOf(data) \in {"num", "null"} THEN Raise("TypeError")
       ELSE IF ~contains_i(data) THEN Return(EmptyTable)
       ELSE IF TypeOf(data) # "obj" THEN Raise("TypeError")
       ELSE IF TypeOf(ObjGet(data, KeyI, Null)) # "list" THEN Return(EmptyTable)
       ELSE ava_json_entries(Return(EmptyTable), ObjGet(data, KeyI, Null).list, 1)

\* the body of the loop over commands keeping the first command of an action
\* (mutant of vos_json_command)
vos_json_command_first(acc, cmd) ==
    IF acc.raised # "none" THEN acc
    ELSE IF TypeOf(cmd) # "obj" THEN Raise("AttributeError")
    ELSE LET action == ObjGet(cmd, <<"a", "c", "t", "i", "o", "n">>, Str(<<>>))
             canonical == ObjGet(cmd, <<"c", "m", "d">>, Str(<<>>))
             synonyms == ObjGet(cmd, <<"s", "y", "n">>, List(<<>>))
         IN IF ~(Truthy(action) /\ Truthy(canonical)) THEN acc
            ELSE IF TypeOf(action) # "str" THEN Raise("AttributeError")
            ELSE IF TypeOf(synonyms) # "list" THEN Raise("TypeError")
            ELSE IF TableHas(acc.intents, Str(lower(action.str))) THEN acc
            ELSE Return(TableSet(acc.intents, Str(lower(action.str)),
                                 <<canonical>> \o synonyms.list))

\* the body of the loop over commands
vos_json_command(acc, cmd) ==
    IF acc.raised # "none" THEN acc
    ELSE IF TypeOf(cmd) # "obj" THEN Raise("AttributeError")
    ELSE LET action == ObjGet(cmd, <<"a", "c", "t", "i", "o", "n">>, Str(<<>>))
             canonical == ObjGet(cmd, <<"c", "m", "d">>, Str(<<>>))
             synonyms == ObjGet(cmd, <<"s", "y", "n">>, List(<<>>))
         IN IF ~(Truthy(action) /\ Truthy(canonical)) THEN acc
            ELSE IF TypeOf(action) # "str" THEN Raise("AttributeError")
            ELSE IF TypeOf(synonyms) # "list" THEN Raise("TypeError")
            ELSE Return(TableSet(acc.intents, Str(lower(action.str)),
                                 <<canonical>> \o synonyms.list))

RECURSIVE vos_json_commands(_, _, _)
vos_json_commands(acc, commands, k) ==
    IF k > Len(commands) THEN acc
    ELSE vos_json_commands(vos_json_command(acc, commands[k]), commands, k + 1)

\* parse_vos_json_format(content)
parse_vos_json_format(content) ==
    LET data == json_loads(content)
    IN IF data = JSONDecodeError THEN Return(EmptyTable)
       ELSE IF TypeOf(data) # "obj" THEN Raise("AttributeError")
       ELSE LET commands == ObjGet(data, KeyCommands, List(<<>>))
            IN IF ~Iterable(commands) THEN Raise("TypeError")
               ELSE vos_json_commands(Return(EmptyTable), Items(commands), 1)

(***************************************************************************)
(* load_ava_files: the body of the loop over the files                     *)
(***************************************************************************)

\* the examples of new that are not in the set of the existing ones, in order
RECURSIVE not_existing(_, _)
not_existing(examples, existing) ==
    IF examples = <<>> THEN <<>>
    ELSE (IF Head(examples) \notin existing THEN <<Head(examples)>> ELSE <<>>)
         \o not_existing(Tail(examples), existing)

\* a merge that replaces the list of an intent (mutant of merge_intent)
merge_intent_overwrite(table, intent_id, examples) == TableSet(table, intent_id, examples)

\* the body of the loop over intents.items()
merge_intent(table, intent_id, examples) ==
    IF TableHas(table, intent_id)
    THEN LET existing == {table.val[intent_id][i] :
                             i \in 1..Len(table.val[intent_id])}
         IN TableSet(table, intent_id,
                     table.val[intent_id] \o not_existing(examples, existing))
    ELSE TableSet(table, intent_id, examples)

RECURSIVE merge_intents(_, _, _)
merge_intents(table, intents, k) ==
    IF k > Len(intents.keys) THEN table
    ELSE merge_intents(merge_intent(table, intents.keys[k], intents.val[intents.keys[k]]),
                       intents, k + 1)

\* a choice that tries parse_vos_json_format after every normal return of
\* parse_ava_json_format (mutant of after_ava_json)
after_ava_json_always_vos(content, a) ==
    IF a.raised # "none" THEN [attempts |-> <<"ava_json">>, result |-> a]
    ELSE [attempts |-> <<"ava_json", "vos_json">>,
          result |-> parse_vos_json_format(content)]

\* lines 356-358: the outcome of the file once parse_ava_json_format has been called
after_ava_json(content, a) ==
    IF a.raised # "none" THEN [attempts |-> <<"ava_json">>, result |-> a]
    ELSE IF ~TableNonEmpty(a.intents)
         THEN [attempts |-> <<"ava_json", "vos_json">>,
               result |-> parse_vos_json_format(content)]
         ELSE [attempts |-> <<"ava_json">>, result |-> a]

\* the choice of parsers for one file: the parsers called, in order, and the outcome
parse_file(content) ==
    IF startswith(strip(content), <<"{">>)
    THEN after_ava_json(content, parse_ava_json_format(content))
    ELSE [attempts |-> <<"ava_yaml">>, result |-> parse_ava_yaml_format(content)]

\* lines 363-373: the merge of the parsed intents p of one file; an exception of a parser
\* is caught by the handler of line 375, which leaves the accumulated table as it was
merge_file(table, count, p) ==
    IF p.result.raised = "none" /\ TableNonEmpty(p.result.intents)
    THEN [all_intents |-> merge_intents(table, p.result.intents, 1),
          total_files |-> count + 1,
          attempts |-> p.attempts, result |-> p.result]
    ELSE [all_intents |-> table, total_files |-> count,
          attempts |-> p.attempts, result |-> p.result]

\* one iteration of the loop over ava_files
load_file(table, count, content) == merge_file(table, count, parse_file(content))

(***************************************************************************)
(* Bytes: struct.pack, str.encode and bytes.hex.  A byte is a number of    *)
(* 0..255.  A float32 is the record of its sign, biased exponent and       *)
(* 23-bit mantissa; a real number is written in thousandths (Milli).       *)
(***************************************************************************)

Milli == 1000

RECURSIVE Pow2(_)
Pow2(n) == IF n = 0 THEN 1 ELSE 2 * Pow2(n - 1)

Abs(x) == IF x < 0 THEN -x ELSE x

\* struct.pack('<I', n)
pack_u32(n) == <<n % 256, (n \div 256) % 256, (n \div 65536) % 256, (n \div 16777216) % 256>>

\* the 23 mantissa bits of 1 + frac / den, then the remainder (frac < den)
RECURSIVE mantissa_bits(_, _, _, _)
mantissa_bits(frac, den, nbits, acc) ==
    IF nbits = 0 THEN [man |-> acc, rest |-> frac]
    ELSE IF 2 * frac >= den THEN mantissa_bits(2 * frac - den, den, nbits - 1, 2 * acc + 1)
    ELSE mantissa_bits(2 * frac, den, nbits - 1, 2 * acc)

\* np.float32(k / 1000): the float32 nearest to k thousandths (round half to even)
float32(k) ==
    IF k = 0 THEN [sign |-> 0, exp |-> 0, man |-> 0]
    ELSE LET a == Abs(k)
             \* 2^e <= a / 1000 < 2^(e + 1)
             e == CHOOSE x \in -10..20 :
                     IF x >= 0 THEN Milli * Pow2(x) <= a /\ a < Milli * Pow2(x + 1)
                     ELSE Milli <= a * Pow2(-x) /\ a * Pow2(-x) < 2 * Milli
             num == IF e >= 0 THEN a ELSE a * Pow2(-e)
             den == IF e >= 0 THEN Milli * Pow2(e) ELSE Milli
             b == mantissa_bits(num - den, den, 23, 0)
             up == 2 * b.rest > den \/ (2 * b.rest = den /\ b.man % 2 = 1)
             man == IF up THEN b.man + 1 ELSE b.man
         IN [sign |-> IF k < 0 THEN 1 ELSE 0,
             exp |-> IF man = Pow2(23) THEN e + 128 ELSE e + 127,
             man |-> IF man = Pow2(23) THEN 0 ELSE man]

\* struct.pack('<f', x) and ndarray.tobytes() of one float32
pack_f32(x) ==
    <<x.man % 256, (x.man \div 256) % 256,
      (x.exp % 2) * 128 + (x.man \div 65536), x.sign * 128 + (x.exp \div 2)>>

\* the bytes of a float32 vector, component after component
RECURSIVE pack_vector(_)
pack_vector(embedding) ==
    IF embedding = <<>> THEN <<>>
    ELSE pack_f32(Head(embedding)) \o pack_vector(Tail(embedding))

\* the code points of the characters of the model's identifiers; EAcute stands for the
\* one character U+00E9, which UTF-8 writes on two bytes
EAcute == "U+00E9"
CodePoints ==
    << <<"a", 97>>, <<"b", 98>>, <<"c", 99>>, <<"m", 109>>, <<"x", 120>>, <<"y", 121>>,
       <<"_", 95>>, <<"1", 49>>, <<"w", 119>>, <<"i", 105>>, <<"f", 102>>,
       <<"o", 111>>, <<"n", 110>>, <<"'", 39>>, <<";", 59>>, <<EAcute, 233>> >>
ord(c) == CodePoints[CHOOSE i \in 1..Len(CodePoints) : CodePoints[i][1] = c][2]

\* str.encode('utf-8'), for code points below U+0800
RECURSIVE encode_utf8(_)
encode_utf8(s) ==
    IF s = <<>> THEN <<>>
    ELSE LET cp == ord(Head(s))
         IN (IF cp < 128 THEN <<cp>> ELSE <<192 + (cp \div 64), 128 + (cp % 64)>>)
            \o encode_utf8(Tail(s))

HexDigits == <<"0", "1", "2", "3", "4", "5", "6", "7", "8", "9", "A", "B", "C", "D", "E", "F">>

\* bytes.hex().upper()
RECURSIVE hex_upper(_)
hex_upper(blob) ==
    IF blob = <<>> THEN <<>>
    ELSE <<HexDigits[(Head(blob) \div 16) + 1], HexDigits[(Head(blob) % 16) + 1]>>
         \o hex_upper(Tail(blob))

\* embedding_to_blob(embedding)
embedding_to_blob(embedding) == pack_vector(embedding)

\* blob_to_hex(blob)
blob_to_hex(blob) == <<"X", "'">> \o hex_upper(blob) \o <<"'">>

(***************************************************************************)
(* EmbeddingGenerator.  The inference session is the collaborator: for a   *)
(* text it either raises or returns hidden states, here the same row at    *)
(* every position.  Real numbers are counted in thousandths, with integer   *)
(* rounding; the result of compute_intent_embedding is cast to float32.    *)
(***************************************************************************)

\* the outcome of a call that raised, and of one that returned a vector
Raised == [ok |-> FALSE, embedding |-> <<>>]
Returned(embedding) == [ok |-> TRUE, embedding |-> embedding]

\* x / y rounded to the nearest thousandth (x, y in thousandths; y > 0)
DivRound(x, y) == (2 * x + y) \div (2 * y)

\* a + b and a / n, component by component
VecAdd(a, b) == [i \in 1..Len(a) |-> a[i] + b[i]]
VecDiv(a, n) == [i \in 1..Len(a) |-> DivRound(a[i], n)]
Zeros(n) == [i \in 1..n |-> 0]

\* the integer part of the square root of n, by bisection of lo..hi (lo * lo <= n < hi * hi)
RECURSIVE isqrt_between(_, _, _)
isqrt_between(n, lo, hi) ==
    IF hi - lo <= 1 THEN lo
    ELSE IF ((lo + hi) \div 2) * ((lo + hi) \div 2) <= n
    THEN isqrt_between(n, (lo + hi) \div 2, hi)
    ELSE isqrt_between(n, lo, (lo + hi) \div 2)
isqrt(n) == isqrt_between(n, 0, 46341)

RECURSIVE SumSquares(_)
SumSquares(a) == IF a = <<>> THEN 0 ELSE Head(a) * Head(a) + SumSquares(Tail(a))

\* np.linalg.norm(a), in thousandths
linalg_norm(a) == isqrt(SumSquares(a))

\* norm = np.linalg.norm(a); a / norm if norm > 0
l2_normalize(a) ==
    IF linalg_norm(a) > 0
    THEN [i \in 1..Len(a) |-> DivRound(a[i] * Milli, linalg_norm(a))]
    ELSE a

\* lines 168-174: the sum of the rows at the positions of mask 1, and their number
token_count_of(mask) == Cardinality({i \in 1..Len(mask) : mask[i] = 1})
pool_rows(mask, row) ==
    [embedding |-> [j \in 1..Len(row) |-> row[j] * token_count_of(mask)],
     token_count |-> token_count_of(mask)]

\* lines 176-177: embedding /= token_count
mean_pool(pooled) ==
    IF pooled.token_count > 0 THEN VecDiv(pooled.embedding, pooled.token_count)
    ELSE pooled.embedding

\* compute_embedding(text): session is the function from texts to the outcome of
\* session.run on them
compute_embedding(self, session, example) ==
    IF TypeOf(example) # "str" THEN Raised
    ELSE IF ~session[example].ok THEN Raised
    ELSE Returned(l2_normalize(mean_pool(pool_rows(tokenize(self, example.str).attention_mask,
                                                   session[example].hidden))))

\* lines 188-194 with lines 143 and 151: the calls of session.run that the loop over
\* the examples of an intent adds to the calls made so far; tokenize raises on an
\* example that is no str, before the session is reached
RECURSIVE session_run_calls(_, _, _, _)
session_run_calls(intent_id, examples, k, log) ==
    IF k > Len(examples) THEN log
    ELSE session_run_calls(intent_id, examples, k + 1,
                           IF TypeOf(examples[k]) = "str"
                           THEN Append(log, <<intent_id, examples[k]>>) ELSE log)

\* a loop that gives up at the first failing example (mutant of embed_examples)
RECURSIVE embed_examples_stop(_, _, _, _, _)
embed_examples_stop(self, session, examples, k, embeddings) ==
    IF k > Len(examples) THEN embeddings
    ELSE IF ~compute_embedding(self, session, examples[k]).ok THEN <<>>
    ELSE embed_examples_stop(self, session, examples, k + 1,
             Append(embeddings, compute_embedding(self, session, examples[k]).embedding))

\* lines 188-194: the embeddings of the examples that did not raise, in order
RECURSIVE embed_examples(_, _, _, _, _)
embed_examples(self, session, examples, k, embeddings) ==
    IF k > Len(examples) THEN embeddings
    ELSE embed_examples(self, session, examples, k + 1,
             IF compute_embedding(self, session, examples[k]).ok
             THEN Append(embeddings, compute_embedding(self, session, examples[k]).embedding)
             ELSE embeddings)

\* np.mean(embeddings, axis=0)
RECURSIVE VecSum(_)
VecSum(vectors) ==
    IF Len(vectors) = 1 THEN vectors[1] ELSE VecAdd(vectors[1], VecSum(Tail(vectors)))
np_mean(vectors) == VecDiv(VecSum(vectors), Len(vectors))

\* avg_embedding.astype(np.float32)
astype_float32(a) == [i \in 1..Len(a) |-> float32(a[i])]

None == [none |-> 0]

\* lines 196-205, from the list of the embeddings computed
average_embedding(embeddings) ==
    IF embeddings = <<>> THEN None
    ELSE [vector |-> astype_float32(l2_normalize(np_mean(embeddings)))]

\* compute_intent_embedding(examples)
compute_intent_embedding(self, session, examples) ==
    average_embedding(embed_examples(self, session, examples, 1, <<>>))

(***************************************************************************)
(* The filesystem the outputs are written to: the directories, and the     *)
(* content of each file.  A path is the sequence of its components.        *)
(***************************************************************************)

TextContent(chars) == [text |-> chars]
BytesContent(bytes) == [bytes |-> bytes]

\* Path(p).parent and the directories above it, the root excluded
Parents(path) == {SubSeq(path, 1, n) : n \in 1..(Len(path) - 1)}

IOFailed(fs) == [ok |-> FALSE, fs |-> fs, error |-> "OSError"]
IODone(fs) == [ok |-> TRUE, fs |-> fs, error |-> "none"]

\* Path(path).parent.mkdir(parents=True, exist_ok=True): it raises when a file stands
\* where a directory is needed
mkdir_parents(fs, path) ==
    IF \E d \in Parents(path) : d \in DOMAIN fs.files THEN IOFailed(fs)
    ELSE IODone([fs EXCEPT !.dirs = fs.dirs \cup Parents(path)])

\* open(path, 'w') and the writes: it raises when path is a directory
write_file(fs, path, content) ==
    IF path \in fs.dirs THEN IOFailed(fs)
    ELSE IODone([fs EXCEPT !.files = DictSet(fs.files, path, content)])

\* the directory is made, then the file is opened and written
make_and_write(fs, path, content) ==
    IF mkdir_parents(fs, path).ok THEN write_file(mkdir_parents(fs, path).fs, path, content)
    ELSE IOFailed(fs)

(***************************************************************************)
(* generate_sql                                                            *)
(***************************************************************************)

\* str(n) for n >= 0
RECURSIVE str_int(_)
str_int(n) == IF n < 10 THEN <<Digit(n)>> ELSE str_int(n \div 10) \o <<Digit(n % 10)>>

SqlTitle ==
    <<"-", "-", " ", "P", "r", "e", "-", "c", "o", "m", "p", "u", "t", "e", "d", " ", "i",
      "n", "t", "e", "n", "t", " ", "e", "m", "b", "e", "d", "d", "i", "n", "g", "s">>
SqlGeneratedBy ==
    <<"-", "-", " ", "G", "e", "n", "e", "r", "a", "t", "e", "d", " ", "b", "y", " ", "t",
      "o", "o", "l", "s", "/", "e", "m", "b", "e", "d", "d", "i", "n", "g", "-", "g", "e",
      "n", "e", "r", "a", "t", "o", "r", "/", "g", "e", "n", "e", "r", "a", "t", "e", "_",
      "e", "m", "b", "e", "d", "d", "i", "n", "g", "s", ".", "p", "y">>
SqlModel ==
    <<"-", "-", " ", "M", "o", "d", "e", "l", ":", " ">>
SqlLocale ==
    <<"-", "-", " ", "L", "o", "c", "a", "l", "e", ":", " ">>
SqlGenerated ==
    <<"-", "-", " ", "G", "e", "n", "e", "r", "a", "t", "e", "d", ":", " ">>
SqlTotal ==
    <<"-", "-", " ", "T", "o", "t", "a", "l", " ", "e", "m", "b", "e", "d", "d", "i", "n",
      "g", "s", ":", " ">>
SqlAuto ==
    <<"-", "-", " ", "T", "h", "i", "s", " ", "f", "i", "l", "e", " ", "i", "s", " ", "a",
      "u", "t", "o", "-", "g", "e", "n", "e", "r", "a", "t", "e", "d", ".", " ", "D", "o",
      " ", "n", "o", "t", " ", "e", "d", "i", "t", " ", "m", "a", "n", "u", "a", "l", "l",
      "y", ".">>
SqlRegenerate ==
    <<"-", "-", " ", "R", "e", "g", "e", "n", "e", "r", "a", "t", "e", " ", "w", "i", "t",
      "h", ":", " ", "p", "y", "t", "h", "o", "n", " ", "t", "o", "o", "l", "s", "/", "e",
      "m", "b", "e", "d", "d", "i", "n", "g", "-", "g", "e", "n", "e", "r", "a", "t", "o",
      "r", "/", "g", "e", "n", "e", "r", "a", "t", "e", "_", "e", "m", "b", "e", "d", "d",
      "i", "n", "g", "s", ".", "p", "y">>
SqlClear ==
    <<"-", "-", " ", "C", "l", "e", "a", "r", " ", "e", "x", "i", "s", "t", "i", "n", "g",
      " ", "b", "u", "n", "d", "l", "e", "d", " ", "e", "m", "b", "e", "d", "d", "i", "n",
      "g", "s", " ", "f", "o", "r", " ", "t", "h", "i", "s", " ", "l", "o", "c", "a", "l",
      "e", " ", "b", "e", "f", "o", "r", "e", " ", "i", "n", "s", "e", "r", "t", "i", "n",
      "g">>
SqlDelete ==
    <<"D", "E", "L", "E", "T", "E", " ", "F", "R", "O", "M", " ", "i", "n", "t", "e", "n",
      "t", "_", "e", "m", "b", "e", "d", "d", "i", "n", "g", " ", "W", "H", "E", "R", "E",
      " ", "s", "o", "u", "r", "c", "e", " ", "=", " ", "'", "B", "U", "N", "D", "L", "E",
      "D", "_", "A", "P", "K", "'", " ", "A", "N", "D", " ", "l", "o", "c", "a", "l", "e",
      " ", "=", " ", "'">>
SqlDeleteEnd ==
    <<"'", ";">>
SqlInsertComment ==
    <<"-", "-", " ", "I", "n", "s", "e", "r", "t", " ", "p", "r", "e", "-", "c", "o", "m",
      "p", "u", "t", "e", "d", " ", "e", "m", "b", "e", "d", "d", "i", "n", "g", "s">>
SqlInsertInto ==
    <<"I", "N", "S", "E", "R", "T", " ", "O", "R", " ", "R", "E", "P", "L", "A", "C", "E",
      " ", "I", "N", "T", "O", " ", "i", "n", "t", "e", "n", "t", "_", "e", "m", "b", "e",
      "d", "d", "i", "n", "g", " ", "(", "\n", " ", " ", " ", " ", "i", "n", "t", "e", "n",
      "t", "_", "i", "d", ",", " ", "l", "o", "c", "a", "l", "e", ",", " ", "e", "m", "b",
      "e", "d", "d", "i", "n", "g", "_", "v", "e", "c", "t", "o", "r", ",", " ", "e", "m",
      "b", "e", "d", "d", "i", "n", "g", "_", "d", "i", "m", "e", "n", "s", "i", "o", "n",
      ",", " ", "m", "o", "d", "e", "l", "_", "v", "e", "r", "s", "i", "o", "n", ",", "\n",
      " ", " ", " ", " ", "n", "o", "r", "m", "a", "l", "i", "z", "a", "t", "i", "o", "n",
      "_", "t", "y", "p", "e", ",", " ", "o", "n", "t", "o", "l", "o", "g", "y", "_", "i",
      "d", ",", " ", "c", "r", "e", "a", "t", "e", "d", "_", "a", "t", ",", " ", "u", "p",
      "d", "a", "t", "e", "d", "_", "a", "t", ",", " ", "e", "x", "a", "m", "p", "l", "e",
      "_", "c", "o", "u", "n", "t", ",", " ", "s", "o", "u", "r", "c", "e", "\n", ")", " ",
      "V", "A", "L", "U", "E", "S", " ", "(", "\n", " ", " ", " ", " ", "'">>
SqlQuoteCommaQuote ==
    <<"'", ",", " ", "'">>
SqlQuoteComma ==
    <<"'", ",", " ">>
SqlCommaQuote ==
    <<",", " ", "'">>
SqlComma ==
    <<",", " ">>
SqlL2Null ==
    <<"'", ",", "\n", " ", " ", " ", " ", "'", "L", "2", "'", ",", " ", "N", "U", "L", "L",
      ",", " ">>
SqlInsertEnd ==
    <<",", " ", "'", "B", "U", "N", "D", "L", "E", "D", "_", "A", "P", "K", "'", "\n", ")",
      ";">>

\* the text an f-string gives for an intent id (a str, or an int that is not negative)
format_id(v) == IF TypeOf(v) = "str" THEN v.str ELSE str_int(v.num)

\* the INSERT statement of one record (lines 433-439)
sql_insert(intent_id, embedding, example_count, model_version, locale, current_time) ==
    SqlInsertInto \o intent_id \o SqlQuoteCommaQuote \o locale \o SqlQuoteComma
    \o blob_to_hex(embedding_to_blob(embedding)) \o SqlComma \o str_int(Len(embedding))
    \o SqlCommaQuote \o model_version \o SqlL2Null
    \o str_int(current_time) \o SqlComma \o str_int(current_time) \o SqlComma
    \o str_int(example_count) \o SqlInsertEnd

\* a loop that writes the records from the last to the first (mutant of sql_records)
RECURSIVE sql_records_reversed(_, _, _, _, _)
sql_records_reversed(embeddings, k, model_version, locale, current_time) ==
    IF k > Len(embeddings.keys) THEN <<>>
    ELSE sql_records_reversed(embeddings, k + 1, model_version, locale, current_time)
         \o <<sql_insert(format_id(embeddings.keys[k]), embeddings.val[embeddings.keys[k]].embedding,
                         embeddings.val[embeddings.keys[k]].example_count,
                         model_version, locale, current_time), <<>> >>

\* lines 429-441: the statement and the empty line of each record, in the dict's order
RECURSIVE sql_records(_, _, _, _, _)
sql_records(embeddings, k, model_version, locale, current_time) ==
    IF k > Len(embeddings.keys) THEN <<>>
    ELSE <<sql_insert(format_id(embeddings.keys[k]), embeddings.val[embeddings.keys[k]].embedding,
                      embeddings.val[embeddings.keys[k]].example_count,
                      model_version, locale, current_time), <<>> >>
         \o sql_records(embeddings, k + 1, model_version, locale, current_time)

\* lines 410-441: the list lines; now is the clock, read as time.time() in milliseconds
\* and as time.strftime text
sql_lines(embeddings, model_version, locale, now) ==
    <<SqlTitle, SqlGeneratedBy, SqlModel \o model_version, SqlLocale \o locale,
      SqlGenerated \o now.strftime, SqlTotal \o str_int(Len(embeddings.keys)), <<>>,
      SqlAuto, SqlRegenerate, <<>>, SqlClear,
      SqlDelete \o locale \o SqlDeleteEnd, <<>>, SqlInsertComment>>
    \o sql_records(embeddings, 1, model_version, locale, now.current_time)

\* a generate_sql that only builds the text (mutant of generate_sql)
generate_sql_text_only(embeddings, model_version, output_path, locale, now, fs) == IODone(fs)

\* generate_sql(embeddings, model_version, output_path, locale)
generate_sql(embeddings, model_version, output_path, locale, now, fs) ==
    make_and_write(fs, output_path,
        TextContent(Join(sql_lines(embeddings, model_version, locale, now), "\n")))

(***************************************************************************)
(* generate_aot                                                            *)
(***************************************************************************)

MAGIC == <<65, 79, 84, 0>>
VERSION == 1
DefaultDimension == 384
ModelBytesLen == 32

\* bytes.ljust(n, b'\x00')
ljust(bytes, n) == bytes \o Zeros(IF Len(bytes) < n THEN n - Len(bytes) ELSE 0)

\* next(iter(embeddings.values()))[0].shape[0] if embeddings else 384
aot_dimension(embeddings) ==
    IF TableNonEmpty(embeddings) THEN Len(embeddings.val[embeddings.keys[1]].embedding)
    ELSE DefaultDimension

\* a header that counts one record too many (mutant of aot_header)
aot_header_miscount(embeddings, model_version) ==
    MAGIC \o pack_u32(VERSION) \o pack_u32(Len(embeddings.keys) + 1)
    \o pack_u32(aot_dimension(embeddings))
    \o ljust(Take(encode_utf8(model_version), ModelBytesLen), ModelBytesLen)

\* lines 471-478: the 48 bytes of the header
aot_header(embeddings, model_version) ==
    MAGIC \o pack_u32(VERSION) \o pack_u32(Len(embeddings.keys))
    \o pack_u32(aot_dimension(embeddings))
    \o ljust(Take(encode_utf8(model_version), ModelBytesLen), ModelBytesLen)

\* lines 482-485: the bytes of one record
aot_record(intent_id, embedding) ==
    pack_u32(Len(encode_utf8(intent_id))) \o encode_utf8(intent_id) \o pack_vector(embedding)

\* lines 482-486: the records written, up to the first id that is not a str, on which
\* intent_id.encode raises AttributeError
RECURSIVE aot_records(_, _)
aot_records(embeddings, k) ==
    IF k > Len(embeddings.keys) THEN <<>>
    ELSE IF TypeOf(embeddings.keys[k]) # "str" THEN <<>>
    ELSE aot_record(embeddings.keys[k].str, embeddings.val[embeddings.keys[k]].embedding)
         \o aot_records(embeddings, k + 1)

encode_raises(embeddings) ==
    \E k \in 1..Len(embeddings.keys) : TypeOf(embeddings.keys[k]) # "str"

\* the outcome of the with block: the bytes written before the exception stay in the file
after_writes(written, raises) ==
    IF written.ok /\ raises THEN [ok |-> FALSE, fs |-> written.fs, error |-> "AttributeError"]
    ELSE written

\* the bytes written to the file
aot_bytes(embeddings, model_version) ==
    aot_header(embeddings, model_version) \o aot_records(embeddings, 1)

\* generate_aot(embeddings, model_version, output_path)
generate_aot(embeddings, model_version, output_path, fs) ==
    after_writes(make_and_write(fs, output_path,
                                BytesContent(aot_bytes(embeddings, model_version))),
                 encode_raises(embeddings))

(***************************************************************************)
(* decode, the reader of the AOT container (the consumer's side of the     *)
(* layout of generate_aot): it fails with FormatError when the magic does  *)
(* not match, the version is unsupported, or the declared record count and *)
(* dimension are inconsistent with the length of the buffer.               *)
(***************************************************************************)

FormatError == [error |-> "FormatError"]

HeaderLen == 48

\* struct.unpack('<I', b); a value of 2^31 or more is beyond every buffer of the model
TooLarge == 2147483647
unpack_u32(b) ==
    IF b[4] >= 128 THEN TooLarge
    ELSE b[1] + 256 * b[2] + 65536 * b[3] + 16777216 * b[4]

\* struct.unpack('<f', b)
unpack_f32(b) ==
    [sign |-> b[4] \div 128,
     exp |-> (b[4] % 128) * 2 + (b[3] \div 128),
     man |-> (b[3] % 128) * 65536 + b[2] * 256 + b[1]]

unpack_vector(b, dimension) ==
    [i \in 1..dimension |-> unpack_f32(SubSeq(b, 4 * i - 3, 4 * i))]

\* chr(cp), for the characters of the model
chr(cp) == CodePoints[CHOOSE i \in 1..Len(CodePoints) : CodePoints[i][2] = cp][1]

\* bytes.decode('utf-8'), for code points below U+0800
RECURSIVE decode_utf8(_)
decode_utf8(b) ==
    IF b = <<>> THEN <<>>
    ELSE IF b[1] < 128 THEN <<chr(b[1])>> \o decode_utf8(Tail(b))
    ELSE <<chr((b[1] - 192) * 64 + (b[2] - 128))>> \o decode_utf8(SubSeq(b, 3, Len(b)))

\* the n records that start at pos, or a failure when the buffer does not hold exactly them
RECURSIVE decode_records(_, _, _, _, _)
decode_records(buf, pos, n, dimension, acc) ==
    IF n = 0 THEN [ok |-> pos = Len(buf) + 1, records |-> acc]
    ELSE IF pos + 3 > Len(buf) \/ dimension > Len(buf) THEN [ok |-> FALSE, records |-> <<>>]
    ELSE LET id_length == unpack_u32(SubSeq(buf, pos, pos + 3))
             vec == pos + 4 + id_length
         IN IF id_length > Len(buf) \/ vec + 4 * dimension - 1 > Len(buf)
            THEN [ok |-> FALSE, records |-> <<>>]
            ELSE decode_records(buf, vec + 4 * dimension, n - 1, dimension,
                     Append(acc,
                         [intent_id |-> decode_utf8(SubSeq(buf, pos + 4, vec - 1)),
                          vector |-> unpack_vector(SubSeq(buf, vec, vec + 4 * dimension - 1),
                                                   dimension)]))

\* the header after the magic, and the records
decode_after_magic(buf) ==
    IF unpack_u32(SubSeq(buf, 5, 8)) # VERSION THEN FormatError
    ELSE IF unpack_u32(SubSeq(buf, 9, 12)) > Len(buf) THEN FormatError
    ELSE IF ~decode_records(buf, HeaderLen + 1, unpack_u32(SubSeq(buf, 9, 12)),
                            unpack_u32(SubSeq(buf, 13, 16)), <<>>).ok THEN FormatError
    ELSE [count |-> unpack_u32(SubSeq(buf, 9, 12)),
          dimension |-> unpack_u32(SubSeq(buf, 13, 16)),
          records |-> decode_records(buf, HeaderLen + 1, unpack_u32(SubSeq(buf, 9, 12)),
                                     unpack_u32(SubSeq(buf, 13, 16)), <<>>).records]

\* a decode that does not look at the magic (mutant of decode)
decode_any_magic(buf) == IF Len(buf) < HeaderLen THEN FormatError ELSE decode_after_magic(buf)

\* decode(bytes)
decode(buf) ==
    IF Len(buf) < HeaderLen \/ SubSeq(buf, 1, 4) # MAGIC THEN FormatError
    ELSE decode_after_magic(buf)

(***************************************************************************)
(* Inputs of the tokenizer                                                 *)
(***************************************************************************)

MaxSpecialLines == 1
MaxTextLen == 3
MaxCalls == 2
LongSlack == 1
LongWordLen == 9

Specials == {CLS, SEP, PAD, UNK}
StandardSpecials == <<PAD, UNK, CLS, SEP>>
SpecialPrefixes ==
    {p \in SeqsUpTo(Specials, MaxSpecialLines) : IsInjective(p)} \cup {StandardSpecials}

VocabWords == << <<"a">>, <<"#", "#", "b">>, <<"a", "b">> >>
VocabWordLists == {SelectAt(VocabWords, P) : P \in SUBSET (1..Len(VocabWords))}

\* the vocabulary and the text of the documented scenario
ScenarioVocab ==
    << CLS, SEP, PAD, UNK, <<"t", "u", "r", "n">>, <<"o", "n">>, <<"w", "i", "f", "i">> >>
ScenarioText == <<"t", "u", "r", "n", " ", "o", "n", " ", "w", "i", "f", "i">>

\* files with a repeated line, with two lines that differ in surrounding whitespace
\* only, and with two blank lines
RepeatedLineVocabs ==
    {<< <<"a">>, <<"#", "#", "b">>, <<"a">> >>,
     << <<"a">>, <<" ", "a", "\t">> >>,
     << <<>>, UNK, <<" ">> >>}

VocabFiles ==
    {p \o w : p \in SpecialPrefixes, w \in VocabWordLists}
    \cup {ScenarioVocab} \cup RepeatedLineVocabs

TextAlphabet == {"a", "b", "A", " "}
ShortTexts == SeqsUpTo(TextAlphabet, MaxTextLen)

\* a text of n one-letter pieces "b", in words of LongWordLen letters
LongText(n) ==
    LET full == n \div LongWordLen
        rest == n % LongWordLen
        len == full * (LongWordLen + 1) + rest
    IN [i \in 1..len |-> IF i % (LongWordLen + 1) = 0 THEN " " ELSE "b"]
LongTexts == {LongText(n) : n \in (max_length - 2 - LongSlack)..(max_length - 2 + LongSlack)}

Texts == ShortTexts \cup LongTexts \cup {ScenarioText}

NoOutput == [input_ids |-> <<>>, attention_mask |-> <<>>, token_type_ids |-> <<>>]

(***************************************************************************)
(* Inputs of the parsers: file contents                                    *)
(***************************************************************************)

MaxDelimLines == 5
MaxRecordLines == 2
MaxMergeLines == 2
MaxFiles == 2

RecV == <<"V", ":", "a", ":", "x">>

\* lines that exercise the section counting
DelimLines == {Delimiter, <<" ">> \o Delimiter, RecV}

\* lines that exercise the record test
RecordLines ==
    {RecV,
     <<"V", ":", "a", ":", "y">>,
     <<"V", ":", "b", ":", "x">>,
     <<"v", ":", "a", ":", "x">>,
     <<"V", " ", "M", ":", "a", ":", "x">>,
     <<"V", "\t", "M", ":", "a", ":", "y">>,
     <<"V", "_", ":", "b", ":", "y">>,
     <<"_", ":", "a", ":", "x">>,
     <<"V", ":", "a", ":", "x", ":", "y">>,
     <<"V", ":", "a", ":", " ", "x">>,
     <<" ", "V", " ", ":", " ", "b", " ", ":", "y", " ">>,
     <<"V", ":", "a">>,
     <<"V", ":", ":", "x">>,
     <<"V", ":", "a", ":">>,
     <<"#", "V", ":", "a", ":", "x">>,
     <<>>}

\* the legacy content of the documented scenario
ScenarioLegacy ==
    Join(<<Delimiter, <<"m", "e", "t", "a">>, Delimiter,
           <<"V", "C", "M", ":", "w", "i", "f", "i", "_", "o", "n", ":",
             "t", "u", "r", "n", " ", "o", "n", " ", "w", "i", "f", "i">>,
           Delimiter, <<>> >>, "\n")

\* the data section made of the given lines, after an empty metadata section
DataSection(lines) == Join(<<Delimiter, Delimiter>> \o lines, "\n")

LegacyContents ==
    {Join(l, "\n") : l \in SeqsUpTo(DelimLines, MaxDelimLines)}
    \cup {DataSection(l) : l \in SeqsUpTo(RecordLines, MaxRecordLines)}
    \cup {ScenarioLegacy}

\* texts that start like an object and are no JSON
MalformedJson == {<<"{">>, <<"{", "V", ":", "a", ":", "x">>}

JsonContents ==
    JsonTexts
    \cup {<<" ", "\n">> \o dumps(v) \o <<"\n">> : v \in MixedDocs}
    \cup MalformedJson

AllContents == LegacyContents \cup JsonContents

\* the contents of the files of a run that merges several files
MergeLines == {RecV, <<"V", ":", "a", ":", "y">>, <<"V", ":", "b", ":", "x">>}
MergeDocs ==
    {Obj(<< <<KeyI, List(<<e>>)>> >>) :
        e \in {AEntry(Str(<<"a">>), List(<<Str(<<"y">>), Str(<<"x">>)>>), Absent),
               AEntry(Str(<<"a">>), List(<<Str(<<"x">>)>>), Str(<<"x">>)),
               Num(5)}}
    \cup {Obj(<< <<KeyCommands, List(<<c>>)>> >>) :
        c \in {BCommand(Str(<<"A">>), Str(<<"x">>), List(<<Str(<<"y">>)>>)),
               BCommand(Str(<<"B">>), Str(<<"x">>), Absent)}}
MergeContents ==
    {DataSection(l) : l \in SeqsUpTo(MergeLines, MaxMergeLines)}
    \cup {dumps(v) : v \in MergeDocs}
    \cup {<<"{">>}

NoCall ==
    [via |-> "none", content |-> <<>>, attempts |-> <<>>, raised |-> "none",
     intents |-> EmptyTable, accepted |-> <<>>]

\* the values of the variables of main and of decode while they are not running
NoArgs ==
    [ava_dirs |-> <<>>, model_version |-> <<>>, locale |-> <<>>,
     output_sql |-> <<>>, output_aot |-> <<>>, model_loads |-> TRUE, intents |-> None]
EmptyDisk == [dirs |-> {}, files |-> EmptyDict]
NoClock == [current_time |-> 0, strftime |-> <<>>]
NotDecoded == [pending |-> 0]

IdleMain ==
    /\ pc = "idle"
    /\ argv = NoArgs
    /\ onnx = EmptyDict
    /\ intent_idx = 0
    /\ session_runs = <<>>
    /\ main_embeddings = EmptyTable
    /\ disk = EmptyDisk
    /\ wall_clock = NoClock
    /\ buffer = <<>>
    /\ decoded = NotDecoded

(***************************************************************************)
(* Tokenizer behaviours: a tokenizer is constructed, then tokenize is      *)
(* called on a text, possibly several times.                               *)
(***************************************************************************)

InitTok ==
    /\ mode = "tokenizer"
    /\ tok \in {BertTokenizer_init(f) : f \in VocabFiles}
    /\ text \in Texts
    /\ out = NoOutput
    /\ calls = 0
    /\ files = <<>>
    /\ file_idx = 0
    /\ all_intents = EmptyTable
    /\ total_files = 0
    /\ last_call = NoCall
    /\ IdleMain

Tokenize ==
    /\ mode = "tokenizer"
    /\ calls < MaxCalls
    /\ out' = tokenize(tok, text)
    /\ tok' = tokenize_self(tok, text)
    /\ calls' = calls + 1
    /\ UNCHANGED <<mode, text>>
    /\ UNCHANGED loadvars
    /\ UNCHANGED <<mainvars, codecvars>>

NextTok == Tokenize

Spec == InitTok /\ [][NextTok]_vars

(***************************************************************************)
(* Parser behaviours: the files are found, then a parser is called on a    *)
(* content directly, or the loop of load_ava_files processes the next file.*)
(***************************************************************************)

IdleTok == BertTokenizer_init(<<>>)

InitFiles(fs) ==
    /\ files \in fs
    /\ file_idx = 0
    /\ all_intents = EmptyTable
    /\ total_files = 0
    /\ last_call = NoCall
    /\ tok = IdleTok
    /\ text = <<>>
    /\ out = NoOutput
    /\ calls = 0
    /\ IdleMain

InitParse == mode = "parser" /\ InitFiles({<<c>> : c \in AllContents})

InitLoad == mode = "loader" /\ InitFiles(SeqsUpTo(MergeContents, MaxFiles))

\* parse_ava_yaml_format(content) called on the content of the first file
CallYaml ==
    /\ mode = "parser"
    /\ \E r \in {yaml_run(files[1])} :
           last_call' = [via |-> "direct", content |-> files[1],
                         attempts |-> <<"ava_yaml">>, raised |-> "none",
                         intents |-> r.intents, accepted |-> r.accepted]
    /\ UNCHANGED <<mode, files, file_idx, all_intents, total_files>>
    /\ UNCHANGED tokvars
    /\ UNCHANGED <<mainvars, codecvars>>

\* parse_ava_json_format(content) called on the content of the first file
CallAvaJson ==
    /\ mode = "parser"
    /\ \E r \in {parse_ava_json_format(files[1])} :
           last_call' = [via |-> "direct", content |-> files[1],
                         attempts |-> <<"ava_json">>, raised |-> r.raised,
                         intents |-> r.intents, accepted |-> <<>>]
    /\ UNCHANGED <<mode, files, file_idx, all_intents, total_files>>
    /\ UNCHANGED tokvars
    /\ UNCHANGED <<mainvars, codecvars>>

\* parse_vos_json_format(content) called on the content of the first file
CallVosJson ==
    /\ mode = "parser"
    /\ \E r \in {parse_vos_json_format(files[1])} :
           last_call' = [via |-> "direct", content |-> files[1],
                         attempts |-> <<"vos_json">>, raised |-> r.raised,
                         intents |-> r.intents, accepted |-> <<>>]
    /\ UNCHANGED <<mode, files, file_idx, all_intents, total_files>>
    /\ UNCHANGED tokvars
    /\ UNCHANGED <<mainvars, codecvars>>

\* one iteration of the loop of load_ava_files over the files
LoadFile ==
    /\ mode \in {"parser", "loader"}
    /\ file_idx < Len(files)
    /\ \E r \in {load_file(all_intents, total_files, files[file_idx + 1])} :
          /\ all_intents' = r.all_intents
          /\ total_files' = r.total_files
          /\ last_call' = [via |-> "load", content |-> files[file_idx + 1],
                           attempts |-> r.attempts,
                           raised |-> r.result.raised, intents |-> r.result.intents,
                           accepted |-> IF r.attempts = <<"ava_yaml">>
                                        THEN yaml_run(files[file_idx + 1]).accepted
                                        ELSE <<>>]
    /\ file_idx' = file_idx + 1
    /\ UNCHANGED <<mode, files>>
    /\ UNCHANGED tokvars
    /\ UNCHANGED <<mainvars, codecvars>>

NextParse == CallYaml \/ CallAvaJson \/ CallVosJson \/ LoadFile

SpecParse == InitParse /\ [][NextParse]_vars

NextLoad == LoadFile

SpecLoad == InitLoad /\ [][NextLoad]_vars

(***************************************************************************)
(* Inputs of the emitters: the dict embeddings, the model version, the     *)
(* locale, the output paths, the clock and the filesystem.                 *)
(***************************************************************************)

MaxRecords == 2

IntentIds == {<<"a">>, <<"b", EAcute>>, <<"w", "i", "f", "i", "_", "o", "n">>}

\* (embedding, example count) values; the third embedding has another length
Records ==
    {[embedding |-> <<float32(1000), float32(0)>>, example_count |-> 1],
     [embedding |-> <<float32(-600), float32(800)>>, example_count |-> 2],
     [embedding |-> <<float32(1000)>>, example_count |-> 12]}

DistinctSeqs(S, n) == {s \in SeqsUpTo(S, n) : IsInjective(s)}

\* the dict obtained by inserting ids[1] -> vals[1], ..., ids[k] -> vals[k]
RECURSIVE TableFrom(_, _, _)
TableFrom(ids, vals, k) ==
    IF k = 0 THEN EmptyTable
    ELSE TableSet(TableFrom(ids, vals, k - 1), Str(ids[k]), vals[k])

EmbeddingTables ==
    UNION {{TableFrom(ids, vals, Len(ids)) : vals \in [1..Len(ids) -> Records]} :
           ids \in DistinctSeqs(IntentIds, MaxRecords)}

\* "m1", and a version whose UTF-8 text is longer than the 32 bytes of its field
ModelVersions == {<<"m", "1">>, [i \in 1..33 |-> "m"]}

\* "en-US", "fr-FR", and a locale that holds a quote: x';DELETE FROM intent_embedding;--
Locales ==
    {<<"e", "n", "-", "U", "S">>, <<"f", "r", "-", "F", "R">>,
     <<"x", "'", ";", "D", "E", "L", "E", "T", "E", " ", "F", "R", "O", "M", " ", "i", "n",
       "t", "e", "n", "t", "_", "e", "m", "b", "e", "d", "d", "i", "n", "g", ";", "-", "-">>}

OutputSql == <<"out", "db", "e.sq">>
OutputAot == <<"out", "e.aot">>

Clocks ==
    {[current_time |-> 1700000000, strftime |-> <<"t", "1">>],
     [current_time |-> 1700000001, strftime |-> <<"t", "2">>]}

\* an empty filesystem; one with another file; one where a file stands where the output
\* directory is needed; one where the output paths are directories
Disks ==
    {EmptyDisk,
     [dirs |-> {<<"out">>}, files |-> DictSet(EmptyDict, <<"keep">>, TextContent(<<"x">>))],
     [dirs |-> {}, files |-> DictSet(EmptyDict, <<"out">>, TextContent(<<"x">>))],
     [dirs |-> {<<"out">>, <<"out", "db">>, OutputSql, OutputAot}, files |-> EmptyDict]}

EmitArgs ==
    {[ava_dirs |-> <<>>, model_version |-> v, locale |-> l,
      output_sql |-> OutputSql, output_aot |-> OutputAot, model_loads |-> TRUE,
      intents |-> None] :
     v \in ModelVersions, l \in Locales}

(***************************************************************************)
(* Emitter behaviours: generate_sql is called on a dict of embeddings.     *)
(***************************************************************************)

InitSql ==
    /\ mode = "sql"
    /\ pc = "start"
    /\ argv \in EmitArgs
    /\ main_embeddings \in EmbeddingTables
    /\ disk \in Disks
    /\ wall_clock \in Clocks
    /\ onnx = <<>>
    /\ intent_idx = 0
    /\ session_runs = <<>>
    /\ buffer = <<>>
    /\ decoded = NotDecoded
    /\ tok = IdleTok
    /\ text = <<>>
    /\ out = NoOutput
    /\ calls = 0
    /\ files = <<>>
    /\ file_idx = 0
    /\ all_intents = EmptyTable
    /\ total_files = 0
    /\ last_call = NoCall

\* generate_sql(embeddings, model_version, output_path, locale)
CallGenerateSql ==
    /\ mode = "sql"
    /\ pc = "start"
    /\ \E r \in {generate_sql(main_embeddings, argv.model_version, argv.output_sql,
                              argv.locale, wall_clock, disk)} :
          /\ disk' = r.fs
          /\ pc' = IF r.ok THEN "returned" ELSE "raised"
    /\ UNCHANGED <<mode, argv, onnx, intent_idx, session_runs, main_embeddings, wall_clock>>
    /\ UNCHANGED <<tokvars, loadvars, codecvars>>

NextSql == CallGenerateSql

SpecSql == InitSql /\ [][NextSql]_vars

(***************************************************************************)
(* Container behaviours: generate_aot writes the file, the file is read,   *)
(* possibly damaged (cut short, or one byte of its first 16 changed), and  *)
(* handed to decode.                                                       *)
(***************************************************************************)

InitCodec ==
    /\ mode = "codec"
    /\ pc = "start"
    /\ argv \in {a \in EmitArgs : a.locale = <<"e", "n", "-", "U", "S">>}
    /\ main_embeddings \in EmbeddingTables
    /\ disk = EmptyDisk
    /\ wall_clock = NoClock
    /\ onnx = <<>>
    /\ intent_idx = 0
    /\ session_runs = <<>>
    /\ buffer = <<>>
    /\ decoded = NotDecoded
    /\ tok = IdleTok
    /\ text = <<>>
    /\ out = NoOutput
    /\ calls = 0
    /\ files = <<>>
    /\ file_idx = 0
    /\ all_intents = EmptyTable
    /\ total_files = 0
    /\ last_call = NoCall

\* generate_aot(embeddings, model_version, output_path)
CallGenerateAot ==
    /\ mode = "codec"
    /\ pc = "start"
    /\ \E r \in {generate_aot(main_embeddings, argv.model_version, argv.output_aot, disk)} :
          /\ disk' = r.fs
          /\ pc' = IF r.ok THEN "returned" ELSE "raised"
    /\ UNCHANGED <<mode, argv, onnx, intent_idx, session_runs, main_embeddings, wall_clock>>
    /\ UNCHANGED <<tokvars, loadvars, codecvars>>

\* the consumer reads the file
ReadFile ==
    /\ mode = "codec"
    /\ pc = "returned"
    /\ buffer' = disk.files[argv.output_aot].bytes
    /\ pc' = "read"
    /\ UNCHANGED <<mode, argv, onnx, intent_idx, session_runs, main_embeddings, disk,
                   wall_clock, decoded>>
    /\ UNCHANGED <<tokvars, loadvars>>

\* the buffer loses its end
Truncate ==
    /\ mode = "codec"
    /\ pc = "read"
    /\ \E n \in 0..(Len(buffer) - 1) : buffer' = SubSeq(buffer, 1, n)
    /\ pc' = "damaged"
    /\ UNCHANGED <<mode, argv, onnx, intent_idx, session_runs, main_embeddings, disk,
                   wall_clock, decoded>>
    /\ UNCHANGED <<tokvars, loadvars>>

\* one byte of the magic, version, count or dimension changes
Overwrite ==
    /\ mode = "codec"
    /\ pc = "read"
    /\ \E i \in 1..16 : buffer' = [buffer EXCEPT ![i] = (@ + 1) % 256]
    /\ pc' = "damaged"
    /\ UNCHANGED <<mode, argv, onnx, intent_idx, session_runs, main_embeddings, disk,
                   wall_clock, decoded>>
    /\ UNCHANGED <<tokvars, loadvars>>

\* decode(bytes)
CallDecode ==
    /\ mode = "codec"
    /\ pc \in {"read", "damaged"}
    /\ decoded' = decode(buffer)
    /\ pc' = IF pc = "read" THEN "decoded" ELSE "decoded_damaged"
    /\ UNCHANGED <<mode, argv, onnx, intent_idx, session_runs, main_embeddings, disk,
                   wall_clock, buffer>>
    /\ UNCHANGED <<tokvars, loadvars>>

NextCodec == CallGenerateAot \/ ReadFile \/ Truncate \/ Overwrite \/ CallDecode

SpecCodec == InitCodec /\ [][NextCodec]_vars

(***************************************************************************)
(* Inputs of main: the source directories and their files, the legacy      *)
(* intents file, the inference session and the filesystem.                 *)
(***************************************************************************)

MaxMainFiles == 2

\* files with one intent, with two, with none, unparsable ones, one whose intent id is a
\* number and one whose only example is a number
MainContents ==
    {DataSection(<<RecV, <<"V", ":", "a", ":", "y">> >>),
     DataSection(<< <<"V", ":", "a", ":", "y">>, <<"V", ":", "b", ":", "x">> >>),
     DataSection(<< <<"V", ":", "c", ":", "y">> >>),
     DataSection(<<>>),
     <<"{">>,
     dumps(Obj(<< <<KeyI, List(<<Num(5)>>)>> >>)),
     dumps(Obj(<< <<KeyI, List(<<AEntry(Num(5), Absent, Str(<<"x">>))>>)>> >>)),
     dumps(Obj(<< <<KeyI, List(<<AEntry(Str(<<"b">>), List(<<Num(5)>>), Absent)>>)>> >>))}

MissingDir == [exists |-> FALSE, files |-> <<>>]
Dir(contents) == [exists |-> TRUE, files |-> contents]

\* the values of ava_dirs: one directory, a missing one, a missing one and then one
AvaDirs ==
    {<<Dir(fs)>> : fs \in SeqsUpTo(MainContents, MaxMainFiles)}
    \cup {<<MissingDir>>}
    \cup {<<MissingDir, Dir(<<c>>)>> : c \in MainContents}

\* the legacy intents file: unreadable, or its text
Unreadable == [readable |-> FALSE, content |-> <<>>]
Readable(content) == [readable |-> TRUE, content |-> content]
IntentsFiles ==
    {Unreadable, Readable(<<"{">>), Readable(dumps(List(<<>>))),
     Readable(dumps(List(<<Num(5)>>))),
     Readable(dumps(Obj(<< <<<<"a">>, List(<<Str(<<"x">>), Str(<<"y">>)>>)>>,
                           <<<<"b">>, List(<<Str(<<"x">>)>>)>> >>)))}

MainArgs ==
    {[ava_dirs |-> d, model_version |-> <<"m", "1">>, locale |-> <<"e", "n", "-", "U", "S">>,
      output_sql |-> OutputSql, output_aot |-> OutputAot, model_loads |-> l,
      intents |-> None] : d \in AvaDirs, l \in BOOLEAN}
    \cup {[ava_dirs |-> <<>>, model_version |-> <<"m", "1">>,
           locale |-> <<"e", "n", "-", "U", "S">>,
           output_sql |-> OutputSql, output_aot |-> OutputAot, model_loads |-> TRUE,
           intents |-> i] : i \in IntentsFiles \cup {None}}

\* session.run on a text raises, or gives the rows of the text
RunRaises == [ok |-> FALSE, hidden |-> <<>>]
RunGives(row) == [ok |-> TRUE, hidden |-> row]
Sessions ==
    {[e \in {Str(<<"x">>), Str(<<"y">>)} |-> IF e = Str(<<"x">>) THEN x ELSE y] :
        x \in {RunRaises, RunGives(<<3000, 4000>>)},
        y \in {RunRaises, RunGives(<<0, 2000>>)}}

\* an empty filesystem; one where a file stands where the output directory is needed;
\* one where the path of the AOT file is a directory
MainDisks ==
    {EmptyDisk,
     [dirs |-> {}, files |-> DictSet(EmptyDict, <<"out">>, TextContent(<<"x">>))],
     [dirs |-> {<<"out">>, OutputAot}, files |-> EmptyDict]}

(***************************************************************************)
(* main                                                                    *)
(***************************************************************************)

\* line 344 for every directory that exists (lines 337-341), in the order of ava_dirs
RECURSIVE FilesOf(_)
FilesOf(dirs) ==
    IF dirs = <<>> THEN <<>>
    ELSE (IF Head(dirs).exists THEN Head(dirs).files ELSE <<>>) \o FilesOf(Tail(dirs))

\* the dict of a JSON object, in the order of its members
RECURSIVE dict_of(_, _)
dict_of(pairs, k) ==
    IF k = 0 THEN EmptyTable
    ELSE TableSet(dict_of(pairs, k - 1), Str(pairs[k][1]),
                  IF TypeOf(pairs[k][2]) = "list" THEN pairs[k][2].list ELSE pairs[k][2])

\* load_intents(path): open or json.load raise, or the value of the document is returned
load_intents(file) ==
    IF ~file.readable THEN [ok |-> FALSE, value |-> Null]
    ELSE IF json_loads(file.content) = JSONDecodeError THEN [ok |-> FALSE, value |-> Null]
    ELSE [ok |-> TRUE, value |-> json_loads(file.content)]

\* lines 528-536 and 542 for the outcome r of load_intents: where main goes
after_load_intents(r) ==
    IF ~r.ok THEN "crashed"
    ELSE IF ~Truthy(r.value) THEN "exit_no_intents"
    ELSE IF TypeOf(r.value) # "obj" THEN "crashed"
    ELSE "embedding"

InitMain ==
    /\ mode = "main"
    /\ pc = "start"
    /\ argv \in MainArgs
    /\ onnx \in Sessions
    /\ disk \in MainDisks
    /\ wall_clock \in {c \in Clocks : c.current_time = 1700000000}
    /\ intent_idx = 0
    /\ session_runs = <<>>
    /\ main_embeddings = EmptyTable
    /\ buffer = <<>>
    /\ decoded = NotDecoded
    /\ tok = IdleTok
    /\ text = <<>>
    /\ out = NoOutput
    /\ calls = 0
    /\ files = <<>>
    /\ file_idx = 0
    /\ all_intents = EmptyTable
    /\ total_files = 0
    /\ last_call = NoCall

\* line 513: EmbeddingGenerator(args.model, args.vocab); an exception of the model or
\* vocabulary load ends the run
MainConstruct ==
    /\ mode = "main"
    /\ pc = "start"
    /\ pc' = IF argv.model_loads THEN "select" ELSE "load_failed"
    /\ tok' = IF argv.model_loads THEN BertTokenizer_init(ScenarioVocab) ELSE tok
    /\ UNCHANGED <<mode, text, out, calls, argv, onnx, intent_idx, session_runs,
                   main_embeddings, disk,
                   wall_clock>>
    /\ UNCHANGED <<loadvars, codecvars>>

\* lines 519-532: the choice of the source of the intents; load_ava_files starts on the
\* files found, or load_intents is called, or the run exits
MainSelect ==
    /\ mode = "main"
    /\ pc = "select"
    /\ IF argv.ava_dirs # <<>>
       THEN /\ files' = FilesOf(argv.ava_dirs)
            /\ pc' = "loading"
            /\ UNCHANGED all_intents
       ELSE IF argv.intents # None
       THEN \E r \in {load_intents(argv.intents)} :
               /\ pc' = after_load_intents(r)
               /\ all_intents' = IF after_load_intents(r) = "embedding"
                                 THEN dict_of(r.value.obj, Len(r.value.obj))
                                 ELSE all_intents
               /\ UNCHANGED files
       ELSE /\ pc' = "exit_no_source"
            /\ UNCHANGED <<files, all_intents>>
    /\ UNCHANGED <<mode, file_idx, total_files, last_call, argv, onnx, intent_idx, session_runs,
                   main_embeddings, disk, wall_clock>>
    /\ UNCHANGED <<tokvars, codecvars>>

\* one iteration of the loop of load_ava_files, called by main (line 527)
MainLoadFile ==
    /\ mode = "main"
    /\ pc = "loading"
    /\ file_idx < Len(files)
    /\ \E r \in {load_file(all_intents, total_files, files[file_idx + 1])} :
          /\ all_intents' = r.all_intents
          /\ total_files' = r.total_files
          /\ last_call' = [via |-> "load", content |-> files[file_idx + 1],
                           attempts |-> r.attempts,
                           raised |-> r.result.raised, intents |-> r.result.intents,
                           accepted |-> <<>>]
    /\ file_idx' = file_idx + 1
    /\ UNCHANGED <<mode, files, mainvars>>
    /\ UNCHANGED <<tokvars, codecvars>>

\* a main that starts on the embeddings while files are still to be loaded
\* (mutant of MainCheckIntents)
MainCheckIntents_early ==
    /\ mode = "main"
    /\ pc = "loading"
    /\ file_idx > 0
    /\ pc' = IF TableNonEmpty(all_intents) THEN "embedding" ELSE "exit_no_intents"
    /\ UNCHANGED <<mode, argv, onnx, intent_idx, session_runs, main_embeddings, disk,
                   wall_clock>>
    /\ UNCHANGED <<tokvars, loadvars, codecvars>>

\* load_ava_files returns; lines 534-536: exit(1) when the table is empty
MainCheckIntents ==
    /\ mode = "main"
    /\ pc = "loading"
    /\ file_idx = Len(files)
    /\ pc' = IF TableNonEmpty(all_intents) THEN "embedding" ELSE "exit_no_intents"
    /\ UNCHANGED <<mode, argv, onnx, intent_idx, session_runs, main_embeddings, disk,
                   wall_clock>>
    /\ UNCHANGED <<tokvars, loadvars, codecvars>>

\* a main that counts the examples that were embedded (mutant of keep_embedding)
keep_embedding_counts_embedded(embeddings, intent_id, examples, embedding) ==
    IF embedding # None
    THEN TableSet(embeddings, intent_id,
                  [embedding |-> embedding.vector,
                   example_count |-> Len(embed_examples(tok, onnx, examples, 1, <<>>))])
    ELSE embeddings

\* lines 544-548 for the outcome embedding of compute_intent_embedding
keep_embedding(embeddings, intent_id, examples, embedding) ==
    IF embedding # None
    THEN TableSet(embeddings, intent_id,
                  [embedding |-> embedding.vector, example_count |-> Len(examples)])
    ELSE embeddings

\* one iteration of the loop of lines 542-548
MainEmbedIntent ==
    /\ mode = "main"
    /\ pc = "embedding"
    /\ intent_idx < Len(all_intents.keys)
    /\ main_embeddings' =
           keep_embedding(main_embeddings, all_intents.keys[intent_idx + 1],
                          all_intents.val[all_intents.keys[intent_idx + 1]],
                          compute_intent_embedding(tok, onnx,
                              all_intents.val[all_intents.keys[intent_idx + 1]]))
    /\ session_runs' =
           session_run_calls(all_intents.keys[intent_idx + 1],
                             all_intents.val[all_intents.keys[intent_idx + 1]], 1,
                             session_runs)
    /\ intent_idx' = intent_idx + 1
    /\ UNCHANGED <<mode, pc, argv, onnx, disk, wall_clock>>
    /\ UNCHANGED <<tokvars, loadvars, codecvars>>

\* line 554: generate_sql, after the last intent
MainGenerateSql ==
    /\ mode = "main"
    /\ pc = "embedding"
    /\ intent_idx = Len(all_intents.keys)
    /\ \E r \in {generate_sql(main_embeddings, argv.model_version, argv.output_sql,
                              argv.locale, wall_clock, disk)} :
          /\ disk' = r.fs
          /\ pc' = IF r.ok THEN "sql_written" ELSE "write_failed"
    /\ UNCHANGED <<mode, argv, onnx, intent_idx, session_runs, main_embeddings, wall_clock>>
    /\ UNCHANGED <<tokvars, loadvars, codecvars>>

\* line 555: generate_aot
MainGenerateAot ==
    /\ mode = "main"
    /\ pc = "sql_written"
    /\ \E r \in {generate_aot(main_embeddings, argv.model_version, argv.output_aot, disk)} :
          /\ disk' = r.fs
          /\ pc' = IF r.ok THEN "done"
                   ELSE IF r.error = "OSError" THEN "write_failed" ELSE "crashed"
    /\ UNCHANGED <<mode, argv, onnx, intent_idx, session_runs, main_embeddings, wall_clock>>
    /\ UNCHANGED <<tokvars, loadvars, codecvars>>

NextMain ==
    \/ MainConstruct \/ MainSelect \/ MainLoadFile \/ MainCheckIntents
    \/ MainEmbedIntent \/ MainGenerateSql \/ MainGenerateAot

SpecMain == InitMain /\ [][NextMain]_vars

(***************************************************************************)
(* Claims about the tokenizer                                              *)
(***************************************************************************)

Called == mode = "tokenizer" /\ calls > 0

\* the words of the text as tokenize sees them, and the ids before truncation
WordsOf(txt) == split(strip(lower(txt)))
RawTokens == tokenize_words(tok, WordsOf(text), 1, <<>>)

\* m is a run of 1s followed only by 0s
OnesThenZeros(m) ==
    \E k \in 0..Len(m) : \A i \in 1..Len(m) : m[i] = (IF i <= k THEN 1 ELSE 0)

\* C1: every tokenize result has three arrays of length exactly 128; the attention
\* mask is a run of 1s followed only by 0s; the token type ids are all 0.
C1_FixedLengthArrays ==
    Called =>
        /\ Len(out.input_ids) = 128
        /\ Len(out.attention_mask) = 128
        /\ Len(out.token_type_ids) = 128
        /\ OnesThenZeros(out.attention_mask)
        /\ \A i \in 1..Len(out.token_type_ids) : out.token_type_ids[i] = 0

\* C1 witness: a call on a text with more ids than fit, and one on a text that needs padding
C1_Witness ==
    /\ Called
    /\ Len(RawTokens) > max_length - 2
    /\ tok.pad_token_id # tok.sep_token_id

\* C2: the first id is the CLS id and the last_call id that is not the PAD id is the SEP id.
C2_FramedBySpecials ==
    Called =>
        LET ids == out.input_ids
            nonpad == {i \in 1..Len(ids) : ids[i] # tok.pad_token_id}
        IN /\ ids[1] = tok.cls_token_id
           /\ nonpad # {}
           /\ ids[CHOOSE i \in nonpad : \A j \in nonpad : j <= i] = tok.sep_token_id

PieceKey(word, pos, L) ==
    IF pos = 0 THEN SubSeq(word, 1, L) ELSE <<"#", "#">> \o SubSeq(word, pos + 1, pos + L)

\* the length of the longest vocabulary entry matching word from pos; 0 when there is none
LongestPiece(vocab, word, pos) ==
    LET fits == {L \in 1..(Len(word) - pos) : PieceKey(word, pos, L) \in DOMAIN vocab}
    IN IF fits = {} THEN 0 ELSE CHOOSE L \in fits : \A M \in fits : M <= L

\* greedy longest-match-first segmentation of word from pos
RECURSIVE Greedy(_, _, _, _)
Greedy(vocab, unk, word, pos) ==
    IF pos >= Len(word) THEN <<>>
    ELSE LET L == LongestPiece(vocab, word, pos)
         IN IF L = 0 THEN <<unk>> \o Greedy(vocab, unk, word, pos + 1)
            ELSE <<vocab[PieceKey(word, pos, L)]>> \o Greedy(vocab, unk, word, pos + L)

ExpectedWordIds(t, word) ==
    IF word \in DOMAIN t.vocab THEN <<t.vocab[word]>>
    ELSE Greedy(t.vocab, t.unk_token_id, word, 0)

RECURSIVE ExpectedIds(_, _)
ExpectedIds(t, words) ==
    IF words = <<>> THEN <<>>
    ELSE ExpectedWordIds(t, Head(words)) \o ExpectedIds(t, Tail(words))

IsScenario == tok = BertTokenizer_init(ScenarioVocab) /\ text = ScenarioText

\* C4: a word that is a vocabulary entry gives exactly its id; any other word gives
\* the greedy longest-match pieces left to right ('##'-prefixed after position 0), with
\* UNK for one character where nothing matches.  The ids between CLS and SEP are these,
\* word after word.  On the scenario vocabulary "turn on wifi" gives 0,4,5,6,1,2,2,2 and
\* mask 1,1,1,1,1,0,0,0 (exactly so with max_length 8).
C4_GreedyLongestMatch ==
    Called =>
        LET expected == Take(ExpectedIds(tok, WordsOf(text)), max_length - 2)
        IN /\ SubSeq(out.input_ids, 2, Len(expected) + 1) = expected
           /\ out.input_ids[Len(expected) + 2] = tok.sep_token_id
           /\ IsScenario =>
                /\ SubSeq(out.input_ids, 1, 8) = <<0, 4, 5, 6, 1, 2, 2, 2>>
                /\ SubSeq(out.attention_mask, 1, 8) = <<1, 1, 1, 1, 1, 0, 0, 0>>
                /\ tokenize([tok EXCEPT !.max_length = 8], text) =
                      [input_ids |-> <<0, 4, 5, 6, 1, 2, 2, 2>>,
                       attention_mask |-> <<1, 1, 1, 1, 1, 0, 0, 0>>,
                       token_type_ids |-> <<0, 0, 0, 0, 0, 0, 0, 0>>]

\* C4 witness: a word outside the vocabulary whose first piece is the longer of two
\* matching entries and whose rest is a matched continuation piece
C4_Witness ==
    /\ Called
    /\ WordsOf(text) = << <<"a", "b", "b">> >>
    /\ {<<"a">>, <<"a", "b">>, <<"#", "#", "b">>} \subseteq DOMAIN tok.vocab
    /\ SubSeq(out.input_ids, 2, 3) = <<tok.vocab[<<"a", "b">>], tok.vocab[<<"#", "#", "b">>]>>

(***************************************************************************)
(* Claims on the parsers and on load_ava_files                             *)
(***************************************************************************)

\* the last call ran parse_ava_yaml_format
YamlCalled == last_call.attempts = <<"ava_yaml">>

Lines(content) == SplitOn(content, "\n")

\* the number of delimiter lines above line n
DelimsBefore(lines, n) == Cardinality({k \in 1..(n - 1) : strip(lines[k]) = Delimiter})

\* the content reduced to its third section
ThirdSection(content) ==
    LET lines == Lines(content)
    IN DataSection(SelectAt(lines, {n \in 1..Len(lines) :
                       DelimsBefore(lines, n) = 2 /\ strip(lines[n]) # Delimiter}))

\* the table holds, for each id of the log, the examples of its lines in the log's order
LogMatches(intents, log) ==
    /\ DOMAIN intents.val = {Str(log[i].id) : i \in 1..Len(log)}
    /\ \A i \in 1..Len(log) :
          LET sel == SelectAt(log, {j \in 1..Len(log) : log[j].id = log[i].id})
          IN intents.val[Str(log[i].id)] = [j \in 1..Len(sel) |-> Str(sel[j].example)]

WifiTable ==
    [keys |-> <<Str(<<"w", "i", "f", "i", "_", "o", "n">>)>>,
     val |-> (Str(<<"w", "i", "f", "i", "_", "o", "n">>) :>
                 <<Str(<<"t", "u", "r", "n", " ", "o", "n", " ", "w", "i", "f", "i">>)>>)]

\* C5: parse_ava_yaml_format accepts a line only when exactly two delimiter lines stand
\* above it: the table is made of the accepted lines alone, it is the table of the third
\* section alone, and the documented legacy content gives {"wifi_on": ["turn on wifi"]}.
C5_OnlyThirdSection ==
    YamlCalled =>
        LET lines == Lines(last_call.content)
        IN /\ \A i \in 1..Len(last_call.accepted) :
                 DelimsBefore(lines, last_call.accepted[i].n) = 2
           /\ LogMatches(last_call.intents, last_call.accepted)
           /\ last_call.intents = parse_ava_yaml_format(ThirdSection(last_call.content)).intents
           /\ last_call.content = ScenarioLegacy => last_call.intents = WifiTable

\* C5 witness: a record line of the third section is accepted and the same record line
\* under a third delimiter is not
C5_Witness ==
    /\ YamlCalled
    /\ Len(last_call.accepted) = 1
    /\ \E n \in 1..Len(Lines(last_call.content)) :
          /\ Lines(last_call.content)[n] = RecV
          /\ DelimsBefore(Lines(last_call.content), n) = 3

Colons(line) == {i \in 1..Len(line) : line[i] = ":"}
FirstColon(line) == CHOOSE c \in Colons(line) : \A d \in Colons(line) : c <= d
SecondColon(line) ==
    CHOOSE c \in Colons(line) \ {FirstColon(line)} :
        \A d \in Colons(line) \ {FirstColon(line)} : c <= d
TypeField(line) == strip(SubSeq(line, 1, FirstColon(line) - 1))
IdField(line) == strip(SubSeq(line, FirstColon(line) + 1, SecondColon(line) - 1))
TextAfterSecondColon(line) == SubSeq(line, SecondColon(line) + 1, Len(line))

\* the log follows the lines from top to bottom
InLineOrder(log) == \A i, j \in 1..Len(log) : i < j => log[i].n < log[j].n

\* C6 as stated: an accepted line has a TYPE that is uppercase and free of whitespace,
\* and its example is everything after the second colon (of the trimmed line, itself
\* trimmed); same-id examples in line order.
C6_NoWhitespaceType ==
    YamlCalled =>
        /\ \A i \in 1..Len(last_call.accepted) :
              LET line == strip(Lines(last_call.content)[last_call.accepted[i].n])
              IN /\ Cardinality(Colons(line)) >= 2
                 /\ \E k \in 1..Len(TypeField(line)) : TypeField(line)[k] \in UpperChars
                 /\ \A k \in 1..Len(TypeField(line)) :
                       TypeField(line)[k] \notin LowerChars \cup Whitespace
                 /\ last_call.accepted[i].id = IdField(line)
                 /\ last_call.accepted[i].example = strip(TextAfterSecondColon(line))
        /\ InLineOrder(last_call.accepted)
        /\ LogMatches(last_call.intents, last_call.accepted)

\* C6 amended: an accepted line has a TYPE (trimmed) with an uppercase letter, no
\* lowercase letter and no space character (a tab inside TYPE is not rejected); its
\* example is the text after the second colon, trimmed, embedded colons preserved;
\* the examples of one id are kept in line order.
C6_NoSpaceType ==
    YamlCalled =>
        /\ \A i \in 1..Len(last_call.accepted) :
              LET line == strip(Lines(last_call.content)[last_call.accepted[i].n])
              IN /\ Cardinality(Colons(line)) >= 2
                 /\ \E k \in 1..Len(TypeField(line)) : TypeField(line)[k] \in UpperChars
                 /\ \A k \in 1..Len(TypeField(line)) :
                       TypeField(line)[k] \notin LowerChars \cup {" "}
                 /\ last_call.accepted[i].id = IdField(line)
                 /\ last_call.accepted[i].example = strip(TextAfterSecondColon(line))
        /\ InLineOrder(last_call.accepted)
        /\ LogMatches(last_call.intents, last_call.accepted)

\* C6 witness: two accepted lines of one id, the first with a colon inside its text, the
\* second with a tab inside its TYPE
C6_Witness ==
    /\ YamlCalled
    /\ Len(last_call.accepted) = 2
    /\ last_call.accepted[1].id = last_call.accepted[2].id
    /\ HasChar(last_call.accepted[1].example, ":")
    /\ HasChar(TypeField(strip(Lines(last_call.content)[last_call.accepted[2].n])), "\t")
    /\ Len(last_call.intents.val[Str(last_call.accepted[1].id)]) = 2

\* C7 as stated: no call of a parser raises
C7_NeverRaises == last_call.via = "direct" => last_call.raised = "none"

\* the first character of the content that is no whitespace is '{'
StartsWithBrace(content) ==
    \E i \in 1..Len(content) :
        content[i] = "{" /\ \A k \in 1..(i - 1) : content[k] \in Whitespace

Attempted(parser) == \E k \in 1..Len(last_call.attempts) : last_call.attempts[k] = parser

\* C8: load_ava_files parses content that starts with '{' (once trimmed) with
\* parse_ava_json_format first and never as legacy text, and calls parse_vos_json_format
\* exactly when parse_ava_json_format returned an empty table; any other content is
\* parsed by parse_ava_yaml_format alone.
C8_Classification ==
    last_call.via = "load" =>
        IF StartsWithBrace(last_call.content)
        THEN /\ last_call.attempts # <<>>
             /\ last_call.attempts[1] = "ava_json"
             /\ ~Attempted("ava_yaml")
             /\ Attempted("vos_json") <=>
                    parse_ava_json_format(last_call.content) = Return(EmptyTable)
        ELSE last_call.attempts = <<"ava_yaml">>

\* C8 witness: a file that starts with '{', gives nothing as schema A and gives intents
\* as schema B
C8_Witness ==
    /\ last_call.via = "load"
    /\ StartsWithBrace(last_call.content)
    /\ last_call.attempts = <<"ava_json", "vos_json">>
    /\ TableNonEmpty(last_call.intents)
    /\ all_intents = last_call.intents

Range(lst) == {lst[i] : i \in 1..Len(lst)}

TableAX == [keys |-> <<Str(<<"a">>)>>, val |-> (Str(<<"a">>) :> <<Str(<<"x">>)>>)]
TableAXY ==
    [keys |-> <<Str(<<"a">>)>>, val |-> (Str(<<"a">>) :> <<Str(<<"x">>), Str(<<"y">>)>>)]

\* C9: each file's table is merged into all_intents so that a new id gets the file's
\* examples, a known id keeps its list as a prefix followed by the file's examples that
\* the list did not hold, in the file's order, and every other id is unchanged;
\* merging {"a": ["x", "y"]} into {"a": ["x"]} gives {"a": ["x", "y"]}.
C9_Merge ==
    [][file_idx' = file_idx + 1 =>
        /\ DOMAIN all_intents'.val = DOMAIN all_intents.val \cup DOMAIN last_call'.intents.val
        /\ \A id \in DOMAIN all_intents'.val :
              all_intents'.val[id] =
                 IF id \notin DOMAIN last_call'.intents.val THEN all_intents.val[id]
                 ELSE IF id \notin DOMAIN all_intents.val THEN last_call'.intents.val[id]
                 ELSE all_intents.val[id] \o
                      SelectAt(last_call'.intents.val[id],
                               {i \in 1..Len(last_call'.intents.val[id]) :
                                   last_call'.intents.val[id][i] \notin
                                       Range(all_intents.val[id])})
        /\ (all_intents = TableAX /\ last_call'.intents = TableAXY) =>
               all_intents' = TableAXY]_vars

\* C9 witness: the second file brings {"a": ["x", "y"]} to the table {"a": ["x"]} of the
\* first file
C9_Witness ==
    /\ file_idx = 2
    /\ files[1] = DataSection(<<RecV>>)
    /\ last_call.intents = TableAXY
    /\ all_intents = TableAXY

\* C10 as stated: no string occurs twice in the example list of an intent
C10_Deduplicated == \A id \in DOMAIN all_intents.val : IsInjective(all_intents.val[id])

(***************************************************************************)
(* Claims on the AOT container                                             *)
(***************************************************************************)

\* the unsigned 32-bit little-endian number at a byte offset of b
U32At(b, offset) ==
    b[offset + 1] + 256 * b[offset + 2] + 65536 * b[offset + 3] + 16777216 * b[offset + 4]

\* generate_aot has returned, and the bytes of the file it wrote
AotWritten == mode = "codec" /\ pc = "returned"
AotFile == disk.files[argv.output_aot].bytes

\* the vector and the UTF-8 length of the id of the k-th record handed to generate_aot
VectorOf(k) == main_embeddings.val[main_embeddings.keys[k]].embedding
IdLengthOf(k) == Len(encode_utf8(main_embeddings.keys[k].str))

\* 48 + the sum over the first n records of (4 + L_i + 4 * D)
RECURSIVE FramedLength(_, _)
FramedLength(n, D) ==
    IF n = 0 THEN 48 ELSE FramedLength(n - 1, D) + 4 + IdLengthOf(n) + 4 * D

\* C13: in every file written by generate_aot the record count at offset 8 is the number
\* of records written, the vector of every record occupies 4 * D bytes, D being the
\* dimension at offset 12, and the file is 48 + sum (4 + L_i + 4 * D) bytes long
C13_HeaderMatchesPayload ==
    AotWritten =>
        /\ U32At(AotFile, 8) = Len(main_embeddings.keys)
        /\ \A k \in 1..Len(main_embeddings.keys) :
               Len(pack_vector(VectorOf(k))) = 4 * U32At(AotFile, 12)
        /\ Len(AotFile) = FramedLength(Len(main_embeddings.keys), U32At(AotFile, 12))

\* the same on the dicts whose vectors all have the length of the first
UniformLengths ==
    \A k \in 1..Len(main_embeddings.keys) : Len(VectorOf(k)) = Len(VectorOf(1))
C13_HeaderMatchesUniformPayload == UniformLengths => C13_HeaderMatchesPayload

\* decode has been called on the bytes of the file as generate_aot wrote them
DecodedAsWritten == mode = "codec" /\ pc = "decoded"
Failed(d) == "error" \in DOMAIN d

WifiOnTable ==
    TableFrom(<< <<"w", "i", "f", "i", "_", "o", "n">> >>,
              <<[embedding |-> <<float32(1000), float32(0)>>, example_count |-> 1]>>, 1)

RoundTrip ==
    /\ ~Failed(decoded)
    /\ decoded.count = Len(main_embeddings.keys)
    /\ decoded.count = U32At(buffer, 8)
    /\ decoded.dimension = U32At(buffer, 12)
    /\ Len(decoded.records) = Len(main_embeddings.keys)
    /\ \A k \in 1..Len(main_embeddings.keys) :
          /\ decoded.records[k].intent_id = main_embeddings.keys[k].str
          /\ decoded.records[k].vector = VectorOf(k)
    /\ (main_embeddings = WifiOnTable /\ argv.model_version = <<"m", "1">>) =>
          decoded = [count |-> 1, dimension |-> 2,
                     records |-> <<[intent_id |-> <<"w", "i", "f", "i", "_", "o", "n">>,
                                    vector |-> <<float32(1000), float32(0)>>]>>]

\* C14: decoding the bytes generate_aot wrote for a dict of embeddings and a model version
\* gives the ids and the vectors of the dict, in its order, with the count and the
\* dimension of the header; ("wifi_on", [1.0, 0.0]) with model "m1" gives dimension 2,
\* count 1 and the vector [1.0, 0.0]
C14_RoundTrip == DecodedAsWritten => RoundTrip

\* the same on the dicts whose vectors all have the length of the first
C14_RoundTripUniform == (DecodedAsWritten /\ UniformLengths) => RoundTrip

\* decode has been called, on the bytes as written or on damaged ones
DecodeCalled == mode = "codec" /\ pc \in {"decoded", "decoded_damaged"}

WrongMagic(b) == Len(b) < 4 \/ SubSeq(b, 1, 4) # MAGIC

\* the offset at which n records of dimension D that start at offset pos end, following
\* the length prefixes; more than Len(b) as soon as a prefix is not whole or is larger
\* than every buffer
RECURSIVE ImpliedEnd(_, _, _, _)
ImpliedEnd(b, pos, n, D) ==
    IF n = 0 THEN pos
    ELSE IF pos + 4 > Len(b) THEN Len(b) + 1
    ELSE IF b[pos + 4] >= 64 THEN Len(b) + 1
    ELSE ImpliedEnd(b, pos + 4 + U32At(b, pos) + 4 * D, n - 1, D)

\* the buffer is shorter than the size its declared count and dimension imply
Short(b) ==
    \/ Len(b) < 48
    \/ b[12] >= 64 \/ U32At(b, 8) > Len(b)
    \/ U32At(b, 8) > 0 /\ (b[16] >= 64 \/ U32At(b, 12) > Len(b))
    \/ ImpliedEnd(b, 48, U32At(b, 8), U32At(b, 12)) > Len(b)

\* C15: decode fails with FormatError, and so returns no records, on every buffer whose
\* first four bytes are not the magic and on every buffer shorter than the size implied
\* by the record count and the dimension it declares
C15_CorruptionDetected ==
    (DecodeCalled /\ (WrongMagic(buffer) \/ Short(buffer))) => decoded = FormatError

\* a buffer with the magic and a whole header, cut inside its records, was refused
C15_Witness ==
    /\ mode = "codec" /\ pc = "decoded_damaged"
    /\ ~WrongMagic(buffer)
    /\ Len(buffer) > 48
    /\ U32At(buffer, 8) = 2
    /\ Short(buffer)
    /\ decoded = FormatError

\* a buffer with another first byte was refused
C15_WrongMagicRefused ==
    /\ mode = "codec" /\ pc = "decoded_damaged"
    /\ Len(buffer) = Len(AotFile)
    /\ buffer[1] # 65
    /\ decoded = FormatError

(***************************************************************************)
(* Claims on generate_sql                                                  *)
(***************************************************************************)

\* generate_sql has returned, and the text of the file it wrote
SqlWritten == mode = "sql" /\ pc = "returned"
SqlText == disk.files[argv.output_sql].text

\* whether pre occurs in s at position p
OccursAt(s, pre, p) == p + Len(pre) - 1 <= Len(s) /\ SubSeq(s, p, p + Len(pre) - 1) = pre


\* the lexical state of SQL text after a character: N outside strings and comments, D after
\* one '-', S inside a string literal, C inside a -- comment; 0 while no character of a
\* statement has been read since the last ';', 1 afterwards
SqlStep(st, c) ==
    CASE st = "S" -> IF c = "'" THEN "N1" ELSE "S"
      [] st = "C0" -> IF c = "\n" THEN "N0" ELSE "C0"
      [] st = "C1" -> IF c = "\n" THEN "N1" ELSE "C1"
      [] c = "'" -> "S"
      [] c = ";" -> "N0"
      [] c = "-" -> IF st = "N0" THEN "D0" ELSE IF st = "N1" THEN "D1"
                    ELSE IF st = "D0" THEN "C0" ELSE "C1"
      [] st = "N0" /\ c \in Whitespace -> "N0"
      [] OTHER -> "N1"

\* the states after the characters lo..hi of s, entered in state st
RECURSIVE SqlScan(_, _, _, _)
RECURSIVE SqlScanRight(_, _, _, _)
SqlScan(s, lo, hi, st) ==
    IF lo > hi THEN <<>>
    ELSE IF lo = hi THEN <<SqlStep(st, s[lo])>>
    ELSE SqlScanRight(s, (lo + hi) \div 2, hi, SqlScan(s, lo, (lo + hi) \div 2, st))
SqlScanRight(s, mid, hi, left) == left \o SqlScan(s, mid + 1, hi, left[Len(left)])

SqlStates(s) == SqlScan(s, 1, Len(s), "N0")

\* the positions where a statement starts with the keyword kw, and the statement there
StatementsOf(s, after, kw) ==
    {p \in 1..Len(s) : /\ after[p] = "N1"
                       /\ (IF p = 1 THEN "N0" ELSE after[p - 1]) = "N0"
                       /\ OccursAt(s, kw, p)}
StatementAt(s, after, p) ==
    SubSeq(s, p, CHOOSE q \in p..Len(s) :
                    /\ s[q] = ";" /\ after[q] = "N0"
                    /\ \A r \in p..(q - 1) : ~(s[r] = ";" /\ after[r] = "N0"))

KwDelete ==
    <<"D", "E", "L", "E", "T", "E", " ", "F", "R", "O", "M", " ">>
KwUpsert ==
    <<"I", "N", "S", "E", "R", "T", " ", "O", "R", " ", "R", "E", "P", "L", "A", "C", "E",
      " ", "I", "N", "T", "O", " ">>
UpsertHead ==
    <<"I", "N", "S", "E", "R", "T", " ", "O", "R", " ", "R", "E", "P", "L", "A", "C", "E",
      " ", "I", "N", "T", "O", " ", "i", "n", "t", "e", "n", "t", "_", "e", "m", "b", "e",
      "d", "d", "i", "n", "g", " ", "(", "\n", " ", " ", " ", " ", "i", "n", "t", "e", "n",
      "t", "_", "i", "d", ",", " ", "l", "o", "c", "a", "l", "e", ",", " ", "e", "m", "b",
      "e", "d", "d", "i", "n", "g", "_", "v", "e", "c", "t", "o", "r", ",", " ", "e", "m",
      "b", "e", "d", "d", "i", "n", "g", "_", "d", "i", "m", "e", "n", "s", "i", "o", "n",
      ",", " ", "m", "o", "d", "e", "l", "_", "v", "e", "r", "s", "i", "o", "n", ",", "\n",
      " ", " ", " ", " ", "n", "o", "r", "m", "a", "l", "i", "z", "a", "t", "i", "o", "n",
      "_", "t", "y", "p", "e", ",", " ", "o", "n", "t", "o", "l", "o", "g", "y", "_", "i",
      "d", ",", " ", "c", "r", "e", "a", "t", "e", "d", "_", "a", "t", ",", " ", "u", "p",
      "d", "a", "t", "e", "d", "_", "a", "t", ",", " ", "e", "x", "a", "m", "p", "l", "e",
      "_", "c", "o", "u", "n", "t", ",", " ", "s", "o", "u", "r", "c", "e", "\n", ")", " ",
      "V", "A", "L", "U", "E", "S", " ", "(", "\n", " ", " ", " ", " ", "'">>
UpsertTail ==
    <<",", " ", "'", "B", "U", "N", "D", "L", "E", "D", "_", "A", "P", "K", "'", "\n", ")",
      ";">>

Nth(S, k) == CHOOSE p \in S : Cardinality({q \in S : q < p}) = k - 1
EndsWith(s, suf) == Len(suf) <= Len(s) /\ SubSeq(s, Len(s) - Len(suf) + 1, Len(s)) = suf

\* one DELETE, scoped to the source and the locale, before every upsert; one upsert per
\* record, in the order of the dict; one timestamp, twice in every upsert
DeleteThenUpserts(s, after, deletes, upserts) ==
    /\ Cardinality(deletes) = 1
    /\ \A d \in deletes :
          /\ StatementAt(s, after, d) = SqlDelete \o argv.locale \o <<"'", ";">>
          /\ \A u \in upserts : d < u
    /\ Cardinality(upserts) = Len(main_embeddings.keys)
    /\ \A k \in 1..Len(main_embeddings.keys) :
          /\ OccursAt(s, UpsertHead \o main_embeddings.keys[k].str \o <<"'", ",">>,
                      Nth(upserts, k))
          /\ EndsWith(StatementAt(s, after, Nth(upserts, k)),
                      <<" ">> \o str_int(wall_clock.current_time) \o <<",", " ">>
                      \o str_int(wall_clock.current_time) \o <<",", " ">>
                      \o str_int(main_embeddings.val[main_embeddings.keys[k]].example_count)
                      \o UpsertTail)

StatementsInOrder(s, after) ==
    DeleteThenUpserts(s, after, StatementsOf(s, after, KwDelete),
                      StatementsOf(s, after, KwUpsert))

\* C16: the text generate_sql writes holds exactly one DELETE statement, scoped to source
\* 'BUNDLED_APK' and to the locale, before every upsert, then exactly one INSERT OR REPLACE
\* statement per record in the order of the records, and all statements carry one
\* timestamp, as created_at and as updated_at
C16_OneDeleteThenUpserts == SqlWritten => StatementsInOrder(SqlText, SqlStates(SqlText))

\* the same when no intent id, locale or model version holds a quote character
Unquoted ==
    /\ "'" \notin Range(argv.locale) \cup Range(argv.model_version)
    /\ \A k \in 1..Len(main_embeddings.keys) : "'" \notin Range(main_embeddings.keys[k].str)
C16_OneDeleteThenUpsertsUnquoted == Unquoted => C16_OneDeleteThenUpserts


\* rows of the table intent_embedding, by the columns the DELETE statements read
StoreRows ==
    {[locale |-> l, source |-> src] :
        l \in Locales \cup {<<"x">>}, src \in {"BUNDLED_APK", "USER"}}

KwDeleteAll ==
    <<"D", "E", "L", "E", "T", "E", " ", "F", "R", "O", "M", " ", "i", "n", "t", "e", "n",
      "t", "_", "e", "m", "b", "e", "d", "d", "i", "n", "g", ";">>

\* whether the DELETE statement stmt removes the row: without WHERE it removes every row,
\* with the WHERE clause of generate_sql the rows of source BUNDLED_APK and of its locale
DeleteMatches(stmt, row) ==
    IF stmt = KwDeleteAll THEN TRUE
    ELSE /\ Len(stmt) >= Len(SqlDelete) + 2
         /\ SubSeq(stmt, 1, Len(SqlDelete)) = SqlDelete
         /\ EndsWith(stmt, <<"'", ";">>)
         /\ row.source = "BUNDLED_APK"
         /\ row.locale = SubSeq(stmt, Len(SqlDelete) + 1, Len(stmt) - 2)

ForeignRowsKept(s, after) ==
    \A row \in StoreRows :
        (row.source # "BUNDLED_APK" \/ row.locale # argv.locale) =>
            \A d \in StatementsOf(s, after, KwDelete) :
                ~DeleteMatches(StatementAt(s, after, d), row)

\* C17: the rows whose source is not 'BUNDLED_APK' or whose locale is not the locale of
\* the script are not deleted by the script generate_sql writes (the part of the claim
\* that does not depend on the uniqueness constraint of the table)
C17_ForeignRowsKept == SqlWritten => ForeignRowsKept(SqlText, SqlStates(SqlText))

\* the same when no intent id, locale or model version holds a quote character
C17_ForeignRowsKeptUnquoted == Unquoted => C17_ForeignRowsKept


\* C18 as claimed: generate_sql only builds text and touches no file or directory
C18_NoFileTouched == [][CallGenerateSql => disk' = disk]_vars

\* the paths generate_sql may create or write: output_path and the directories above it
OutputPaths == {argv.output_sql} \cup Parents(argv.output_sql)

\* C18 (amended): generate_sql changes nothing but the filesystem, and there only
\* output_path and the directories above it: when it returns, the directories above
\* output_path exist and output_path holds the text built from the arguments and the
\* clock; every other file and directory is as before, also when it raises
C18_WritesOnlyOutputPath ==
    [][CallGenerateSql =>
        /\ \A p \in (DOMAIN disk.files) \cup (DOMAIN disk'.files) :
              p \notin OutputPaths =>
                  /\ p \in DOMAIN disk.files /\ p \in DOMAIN disk'.files
                  /\ disk'.files[p] = disk.files[p]
        /\ \A d \in (disk.dirs \cup disk'.dirs) \ OutputPaths : d \in disk.dirs /\ d \in disk'.dirs
        /\ disk.dirs \subseteq disk'.dirs
        /\ pc' = "returned" =>
              /\ Parents(argv.output_sql) \subseteq disk'.dirs
              /\ argv.output_sql \in DOMAIN disk'.files
              /\ disk'.files[argv.output_sql].text =
                     Join(sql_lines(main_embeddings, argv.model_version, argv.locale,
                                    wall_clock), "\n")
        /\ pc' = "raised" => disk'.files = disk.files
        /\ UNCHANGED <<main_embeddings, argv, wall_clock>>]_vars

\* generate_sql returned on a filesystem that held another file, which is still there,
\* and the output file is new
C18_Witness ==
    /\ SqlWritten
    /\ <<"keep">> \in DOMAIN disk.files
    /\ argv.output_sql \in DOMAIN disk.files
    /\ Len(main_embeddings.keys) = 2

(***************************************************************************)
(* Claims on the embedding loop and on main                                *)
(***************************************************************************)

\* the embedding call of an example succeeds: the example is a text and the session
\* gives rows for it
Embeds(example) == TypeOf(example) = "str" /\ onnx[example].ok

\* the examples whose call succeeds, in their order
Survivors(examples) ==
    SelectAt(examples, {k \in 1..Len(examples) : Embeds(examples[k])})

\* the normalized mean of the vectors of the examples, as float32
MeanOf(examples) ==
    astype_float32(l2_normalize(np_mean(
        [k \in 1..Len(examples) |-> compute_embedding(tok, onnx, examples[k]).embedding])))

\* what the iteration of the loop of main on (intent_id, examples) must do
EmbedsOrDrops(intent_id, examples, survivors) ==
    /\ (compute_intent_embedding(tok, onnx, examples) = None) <=> (survivors = <<>>)
    /\ survivors = <<>> => main_embeddings' = main_embeddings
    /\ survivors # <<>> =>
          /\ main_embeddings'.keys = Append(main_embeddings.keys, intent_id)
          /\ main_embeddings'.val[intent_id].embedding = MeanOf(survivors)
          /\ \A k \in DOMAIN main_embeddings.val :
                main_embeddings'.val[k] = main_embeddings.val[k]
    /\ intent_idx' = intent_idx + 1
    /\ pc' = "embedding"

\* C11: an example whose embedding call fails is skipped and the other examples of the
\* intent are still used; compute_intent_embedding returns None exactly when no example
\* succeeded, the intent is then left out of the output, and the loop goes on to the next
\* intent
C11_FailingExamplesSkipped ==
    [][MainEmbedIntent =>
          EmbedsOrDrops(all_intents.keys[intent_idx + 1],
                        all_intents.val[all_intents.keys[intent_idx + 1]],
                        Survivors(all_intents.val[all_intents.keys[intent_idx + 1]]))]_vars

\* a run ended after an intent was dropped and another was kept whose first example
\* failed and whose later example succeeded
C11_Witness ==
    /\ mode = "main" /\ pc = "done"
    /\ \E id \in DOMAIN all_intents.val : ~TableHas(main_embeddings, id)
    /\ \E id \in DOMAIN main_embeddings.val :
          /\ Len(all_intents.val[id]) = 2
          /\ ~Embeds(all_intents.val[id][1])
          /\ Embeds(all_intents.val[id][2])


\* main has ended: by an exception, by exit(1), or after its last statement
Ended ==
    pc \in {"load_failed", "exit_no_source", "exit_no_intents", "crashed", "write_failed",
            "done"}
BothArtifactsWritten ==
    /\ argv.output_sql \in DOMAIN disk.files
    /\ argv.output_aot \in DOMAIN disk.files

\* C19: a run ends without both artifacts only on a failure to load the vocabulary or the
\* model or on a failure to write an output; after every other outcome (files that give
\* no intents or cannot be parsed, missing directories, failing examples, dropped intents,
\* an empty intent table) it ends with both artifacts written
C19_OnlyLoadAndWriteFailuresAbort ==
    (mode = "main" /\ Ended) =>
        \/ pc \in {"load_failed", "write_failed"}
        \/ pc = "done" /\ BothArtifactsWritten

\* the per-item outcomes that do not end the run: whenever the merged table holds an
\* intent and every intent id is a text, the run ends on a write failure or with both
\* artifacts written
C19_PerItemFailuresIsolated ==
    (/\ mode = "main" /\ Ended
     /\ argv.model_loads /\ argv.ava_dirs # <<>>
     /\ TableNonEmpty(all_intents)
     /\ \A k \in 1..Len(all_intents.keys) : TypeOf(all_intents.keys[k]) = "str") =>
        \/ pc = "write_failed"
        \/ pc = "done" /\ BothArtifactsWritten


\* the ids of the intents with an example that embeds, in the order of the merged table
KeptIds ==
    SelectAt(all_intents.keys,
             {k \in 1..Len(all_intents.keys) :
                 Survivors(all_intents.val[all_intents.keys[k]]) # <<>>})

\* the id bytes of the n records of dimension D that start at offset pos of b
RECURSIVE RecordIds(_, _, _, _)
RecordIds(b, pos, n, D) ==
    IF n = 0 THEN <<>>
    ELSE <<SubSeq(b, pos + 5, pos + 4 + U32At(b, pos))>>
         \o RecordIds(b, pos + 4 + U32At(b, pos) + 4 * D, n - 1, D)

\* the upsert statements of the text s are those of the ids, in their order
UpsertsFollow(s, after, upserts, ids) ==
    /\ Cardinality(upserts) = Len(ids)
    /\ \A k \in 1..Len(ids) :
          OccursAt(s, UpsertHead \o format_id(ids[k]) \o <<"'", ",">>, Nth(upserts, k))

SqlFollows(s, ids) ==
    UpsertsFollow(s, SqlStates(s), StatementsOf(s, SqlStates(s), KwUpsert), ids)

AotFollows(b, ids) ==
    /\ U32At(b, 8) = Len(ids)
    /\ RecordIds(b, 48, U32At(b, 8), U32At(b, 12)) =
           [k \in 1..Len(ids) |-> encode_utf8(ids[k].str)]

\* C20: the upsert statements of the SQL text and the records of the AOT file are those
\* of the intents of the merged table that were not dropped, in the order in which the
\* ids were inserted into the table
C20_InsertionOrderKept ==
    /\ (mode = "main" /\ pc \in {"sql_written", "done"}) =>
           SqlFollows(disk.files[argv.output_sql].text, KeptIds)
    /\ (mode = "main" /\ pc = "done") =>
           AotFollows(disk.files[argv.output_aot].bytes, KeptIds)

\* a run ended with two records written around an intent that was dropped
C20_Witness ==
    /\ mode = "main" /\ pc = "done"
    /\ Len(all_intents.keys) = 3
    /\ Len(KeptIds) = 2
    /\ Survivors(all_intents.val[all_intents.keys[2]]) = <<>>

(***************************************************************************)
(* scripts/voiceos: the conversion of a VOS command to the compact array   *)
(* and the dictionary translation of a phrase.                             *)
(***************************************************************************)

\* str.upper() of one character
upper_char(c) == IF c \in LowerChars THEN (CHOOSE p \in CasePairs : p[2] = c)[1] ELSE c

Cased(c) == c \in UpperChars \cup LowerChars

\* str.replace(old, new) for one-character strings
replace(s, old, new) == [i \in 1..Len(s) |-> IF s[i] = old THEN new ELSE s[i]]

\* str.title(): one pass that upper-cases a cased character following an uncased one
\* and lower-cases a cased character following a cased one
RECURSIVE title_scan(_, _, _, _)
title_scan(s, k, previous_is_cased, acc) ==
    IF k > Len(s) THEN acc
    ELSE title_scan(s, k + 1, Cased(s[k]),
                    Append(acc, IF previous_is_cased THEN lower_char(s[k])
                                ELSE upper_char(s[k])))

title(s) == title_scan(s, 1, FALSE, <<>>)

\* f"{action_words} ({category})"
description_of(action_words, category) == action_words \o <<" ", "(">> \o category \o <<")">>

\* convert_vos_to_compact.convert_vos_command_to_compact with the action left as given
convert_vos_command_to_compact_keep_case(vos_command, category) ==
    LET action == vos_command.action
        primary_cmd == vos_command.cmd
        synonyms == vos_command.syn
        action_words == title(replace(action, "_", " "))
    IN  <<action, primary_cmd, synonyms, description_of(action_words, category)>>

\* convert_vos_to_compact.convert_vos_command_to_compact
convert_vos_command_to_compact(vos_command, category) ==
    LET action == lower(vos_command.action)
        primary_cmd == vos_command.cmd
        synonyms == vos_command.syn
        action_words == title(replace(action, "_", " "))
    IN  <<action, primary_cmd, synonyms, description_of(action_words, category)>>

\* generate_all_compact_json.convert_vos_command_to_compact, which the tests import
\* as gen_convert_command
gen_convert_command(vos_command, category) ==
    LET action == lower(vos_command.action)
        primary_cmd == vos_command.cmd
        synonyms == vos_command.syn
        action_words == title(replace(action, "_", " "))
    IN  <<action, primary_cmd, synonyms, description_of(action_words, category)>>

\* the entries of TRANSLATIONS the checked phrases meet
TRANSLATIONS ==
    [l \in {"de", "es", "fr"} |->
        IF l = "de"
        THEN (<<"g", "o">> :> <<"g", "e", "h", "e", "n">>) @@
             (<<"u", "p">> :> <<"h", "o", "c", "h">>) @@
             (<<"t", "u", "r", "n", " ", "o", "n">> :> <<"e", "i", "n", "s", "c", "h", "a", "l", "t", "e", "n">>)
        ELSE IF l = "es"
        THEN (<<"g", "o">> :> <<"i", "r">>) @@
             (<<"u", "p">> :> <<"a", "r", "r", "i", "b", "a">>) @@
             (<<"t", "u", "r", "n", " ", "o", "n">> :> <<"a", "c", "t", "i", "v", "a", "r">>)
        ELSE (<<"g", "o">> :> <<"a", "l", "l", "e", "r">>) @@
             (<<"u", "p">> :> <<"h", "a", "u", "t">>) @@
             (<<"t", "u", "r", "n", " ", "o", "n">> :> <<"a", "c", "t", "i", "v", "e", "r">>)]

\* the loop over the words of translate_phrase
RECURSIVE translate_words(_, _, _, _)
translate_words(translations, words, k, translated_words) ==
    IF k > Len(words) THEN translated_words
    ELSE translate_words(translations, words, k + 1,
                         Append(translated_words,
                                IF words[k] \in DOMAIN translations
                                THEN translations[words[k]] ELSE words[k]))

\* translate_phrase looking the phrase up as given
translate_phrase_cased(phrase, lang) ==
    IF lang \notin DOMAIN TRANSLATIONS THEN phrase
    ELSE LET translations == TRANSLATIONS[lang]
         IN  IF phrase \in DOMAIN translations THEN translations[phrase]
             ELSE Join(translate_words(translations, split(phrase), 1, <<>>), " ")

\* translate_phrase(phrase, lang)
translate_phrase(phrase, lang) ==
    IF lang \notin DOMAIN TRANSLATIONS THEN phrase
    ELSE LET translations == TRANSLATIONS[lang]
             phrase_lower == lower(phrase)
         IN  IF phrase_lower \in DOMAIN translations THEN translations[phrase_lower]
             ELSE Join(translate_words(translations, split(phrase_lower), 1, <<>>), " ")

(***************************************************************************)
(* Inputs of the VOS scripts.                                              *)
(***************************************************************************)

VosActions ==
    {<<"G", "O", "_", "U", "P">>,
     <<"g", "o", "_", "u", "p">>,
     <<"G", "o", "_", "_", "u", "P", "_">>,
     <<"U", "P", "_", "2", "a">>}

VosCmds == {<<>>, <<"g", "o", " ", "u", "p">>, <<"G", "o", " ", "U", "p">>}

VosSyns ==
    {<<>>, <<<<"u", "p">>>>, <<<<"u", "p">>, <<"G", "o">>>>, <<<<"G", "o">>, <<"u", "p">>>>,
     <<<<"u", "p">>, <<"u", "p">>, <<"G", "o">>>>}

VosCommands == [action : VosActions, cmd : VosCmds, syn : VosSyns]

VosCategories == {<<"N", "a", "v">>, <<"n", "a", "v", " ", "x">>}

VosPhrases ==
    {<<>>, <<"g", "o">>, <<"G", "o">>, <<"g", "o", " ", "u", "p">>, <<"G", "o", " ", "U", "p">>,
     <<"t", "u", "r", "n", " ", "o", "n">>,
     <<"T", "u", "r", "n", " ", "O", "n">>,
     <<"t", "u", "r", "n", " ", " ", "o", "n">>,
     <<"f", "o", "o">>, <<"F", "o", "o">>, <<"f", "o", "o", " ", " ", "x">>, <<" ", "f", "o", "o">>,
     <<"g", "o", " ", "f", "o", "o">>}

VosLangs == {"de", "es", "fr", "xx", "DE"}

VosArgs == [command : VosCommands, category : VosCategories]
PhraseArgs == [phrase : VosPhrases, lang : VosLangs]

NoResult == [fn |-> "none", result |-> <<>>]

(***************************************************************************)
(* Script behaviours: one of the functions is called on its arguments.     *)
(***************************************************************************)

InitVos ==
    /\ mode = "vos"
    /\ pc = "start"
    /\ argv \in VosArgs \cup PhraseArgs
    /\ last_call = NoResult
    /\ main_embeddings = EmptyTable
    /\ disk = EmptyDisk
    /\ wall_clock = NoClock
    /\ onnx = <<>>
    /\ intent_idx = 0
    /\ session_runs = <<>>
    /\ buffer = <<>>
    /\ decoded = NotDecoded
    /\ tok = IdleTok
    /\ text = <<>>
    /\ out = NoOutput
    /\ calls = 0
    /\ files = <<>>
    /\ file_idx = 0
    /\ all_intents = EmptyTable
    /\ total_files = 0

Call(fn, result) ==
    /\ pc' = "returned"
    /\ last_call' = [fn |-> fn, result |-> result]
    /\ UNCHANGED <<mode, argv, onnx, intent_idx, session_runs, main_embeddings, disk,
                   wall_clock>>
    /\ UNCHANGED <<tokvars, codecvars, files, file_idx, all_intents, total_files>>

\* convert_vos_to_compact.convert_vos_command_to_compact(vos_command, category)
CallConvert ==
    /\ mode = "vos" /\ pc = "start" /\ argv \in VosArgs
    /\ Call("convert_vos_to_compact",
            convert_vos_command_to_compact(argv.command, argv.category))

\* generate_all_compact_json.convert_vos_command_to_compact(vos_command, category)
CallGenConvert ==
    /\ mode = "vos" /\ pc = "start" /\ argv \in VosArgs
    /\ Call("generate_all_compact_json", gen_convert_command(argv.command, argv.category))

\* translate_phrase(phrase, lang)
CallTranslate ==
    /\ mode = "vos" /\ pc = "start" /\ argv \in PhraseArgs
    /\ Call("translate_phrase", translate_phrase(argv.phrase, argv.lang))

NextVos == CallConvert \/ CallGenConvert \/ CallTranslate

SpecVos == InitVos /\ [][NextVos]_vars

(***************************************************************************)
(* C21  the compact array of a VOS command                                 *)
(***************************************************************************)

Converted == mode = "vos" /\ pc = "returned" /\ last_call.fn # "translate_phrase"

\* b is a with every upper-case letter replaced by its lower-case letter
IsLowercased(a, b) ==
    /\ Len(b) = Len(a)
    /\ \A i \in 1..Len(a) :
          IF a[i] \in UpperChars THEN <<a[i], b[i]>> \in CasePairs ELSE b[i] = a[i]

\* b is a with its underscores turned into spaces and with every letter in upper case
\* when it starts a run of letters and in lower case otherwise
IsTitleOf(a, b) ==
    /\ Len(b) = Len(a)
    /\ \A i \in 1..Len(a) :
          IF a[i] = "_" THEN b[i] = " "
          ELSE IF ~Cased(a[i]) THEN b[i] = a[i]
          ELSE IF i = 1 \/ ~Cased(a[i - 1])
               THEN b[i] \in UpperChars /\ lower_char(b[i]) = lower_char(a[i])
               ELSE b[i] \in LowerChars /\ lower_char(a[i]) = b[i]

\* the description is the title followed by " (category)"
IsDescription(action, category, d) ==
    LET n == Len(action)
    IN  /\ Len(d) = n + Len(category) + 3
        /\ IsTitleOf(action, SubSeq(d, 1, n))
        /\ SubSeq(d, n + 1, n + 2) = <<" ", "(">>
        /\ SubSeq(d, n + 3, n + 2 + Len(category)) = category
        /\ d[Len(d)] = ")"

\* C21: for every command {action, cmd, syn} and category, the conversion returns the
\* 4-element array [lowercased action, cmd, syn, description], the description being the
\* action with spaces for underscores, title-cased, followed by " (category)"; and the
\* implementation of the other script returns the same array on the same arguments.
C21_CompactArray ==
    Converted =>
        /\ Len(last_call.result) = 4
        /\ IsLowercased(argv.command.action, last_call.result[1])
        /\ last_call.result[2] = argv.command.cmd
        /\ last_call.result[3] = argv.command.syn
        /\ IsDescription(argv.command.action, argv.category, last_call.result[4])
        /\ last_call.result =
              IF last_call.fn = "convert_vos_to_compact"
              THEN gen_convert_command(argv.command, argv.category)
              ELSE convert_vos_command_to_compact(argv.command, argv.category)

\* the action "Go__uP_" with two synonyms, converted by convert_vos_to_compact
C21_Witness ==
    /\ Converted
    /\ last_call.fn = "convert_vos_to_compact"
    /\ argv.command.action = <<"G", "o", "_", "_", "u", "P", "_">>
    /\ Len(argv.command.syn) = 2
    /\ last_call.result[1] = <<"g", "o", "_", "_", "u", "p", "_">>
    /\ SubSeq(last_call.result[4], 1, 7) = <<"G", "o", " ", " ", "U", "p", " ">>

(***************************************************************************)
(* C22  translate_phrase on phrases without translation                    *)
(***************************************************************************)

Translated == mode = "vos" /\ pc = "returned" /\ last_call.fn = "translate_phrase"

\* neither the phrase nor one of its words, in lower case, is a key of the dictionary
NothingToTranslate(phrase, lang) ==
    /\ lower(phrase) \notin DOMAIN TRANSLATIONS[lang]
    /\ \A w \in Range(split(lower(phrase))) : w \notin DOMAIN TRANSLATIONS[lang]

\* the phrases that differ from the given one by letter case only
SameLetters(phrase) == {q \in VosPhrases : lower(q) = lower(phrase)}

CaseBlind ==
    \A q \in SameLetters(argv.phrase) : translate_phrase(q, argv.lang) = last_call.result

\* the words are separated by one space each, with no whitespace around them
SingleSpaced(s) ==
    /\ \A i \in 1..Len(s) : s[i] \in Whitespace => s[i] = " "
    /\ s # <<>> => s[1] # " " /\ s[Len(s)] # " "
    /\ \A i \in 1..(Len(s) - 1) : ~(s[i] = " " /\ s[i + 1] = " ")

Min(a, b) == IF a < b THEN a ELSE b

Ones(m) == Cardinality({i \in 1..Len(m) : m[i] = 1})

\* C23: when the words of the text give n token ids, exactly the first min(n, 126) of
\* them, in order, stand between the CLS id and the SEP id, the attention mask holds
\* exactly min(n, 126) + 2 ones, and the SEP id is there also when ids were dropped.
C23_TruncationKeepsFrame ==
    Called =>
        LET kept == Min(Len(RawTokens), 126)
        IN  /\ out.input_ids[1] = tok.cls_token_id
            /\ SubSeq(out.input_ids, 2, kept + 1) = SubSeq(RawTokens, 1, kept)
            /\ out.input_ids[kept + 2] = tok.sep_token_id
            /\ Ones(out.attention_mask) = kept + 2

\* a text of 127 ids: the last one is dropped and the SEP id fills the last position
C23_Witness ==
    /\ Called
    /\ Len(RawTokens) = 127
    /\ out.input_ids[128] = tok.sep_token_id
    /\ out.input_ids[127] = RawTokens[126]
    /\ tok.sep_token_id # RawTokens[127]

(***************************************************************************)
(* C24, C25  the tables of the two JSON parsers                            *)
(***************************************************************************)

DirectCall(parser) ==
    mode = "parser" /\ last_call.via = "direct" /\ last_call.attempts = <<parser>>

Document == json_loads(last_call.content)

Field(o, key) == ObjGet(o, key, Absent)
IsStrOrAbsent(v) == v = Absent \/ TypeOf(v) = "str"
IsListOrAbsent(v) == v = Absent \/ TypeOf(v) = "list"
NonEmptyStr(v) == TypeOf(v) = "str" /\ v.str # <<>>

\* the table holds, for every id of the <<id, examples>> pairs, the examples of the
\* last pair with that id, and nothing else
LastPairWins(table, pairs) ==
    /\ DOMAIN table.val = {pairs[k][1] : k \in 1..Len(pairs)}
    /\ Range(table.keys) = DOMAIN table.val
    /\ \A id \in DOMAIN table.val :
          LET at == {k \in 1..Len(pairs) : pairs[k][1] = id}
          IN  table.val[id] = pairs[CHOOSE k \in at : \A j \in at : j <= k][2]

\* a schema A document: an object whose "i" is an array of objects {id, s, c} with
\* strings for id and c and an array for s, each of them possibly missing
IsEntryA(e) ==
    /\ TypeOf(e) = "obj"
    /\ IsStrOrAbsent(Field(e, <<"i", "d">>))
    /\ IsStrOrAbsent(Field(e, <<"c">>))
    /\ IsListOrAbsent(Field(e, <<"s">>))

IsSchemaA(doc) ==
    /\ TypeOf(doc) = "obj"
    /\ TypeOf(Field(doc, KeyI)) = "list"
    /\ \A k \in 1..Len(Field(doc, KeyI).list) : IsEntryA(Field(doc, KeyI).list[k])

\* the canonical c, if present and non-empty, followed by the samples s
ExamplesA(e) ==
    (IF NonEmptyStr(Field(e, <<"c">>)) THEN <<Field(e, <<"c">>)>> ELSE <<>>)
    \o (IF Field(e, <<"s">>) = Absent THEN <<>> ELSE Field(e, <<"s">>).list)

\* the entries that are not omitted, as <<id, examples>> pairs in document order
PairsA(entries) ==
    LET kept == {k \in 1..Len(entries) :
                    /\ NonEmptyStr(Field(entries[k], <<"i", "d">>))
                    /\ ExamplesA(entries[k]) # <<>>}
        at == SelectAt([k \in 1..Len(entries) |-> k], kept)
    IN  [n \in 1..Len(at) |-> <<Field(entries[at[n]], <<"i", "d">>), ExamplesA(entries[at[n]])>>]

\* C24: parse_ava_json_format gives every entry {id, s, c} of the "i" array with a
\* non-empty id the example list made of the canonical c (if present and non-empty)
\* followed by the samples s in order; entries with an empty id or with no examples are
\* omitted; of several entries (not omitted) with the same id only the list of the
\* last one is in the table.
C24_SchemaATable ==
    (DirectCall("ava_json") /\ IsSchemaA(Document)) =>
        /\ last_call.raised = "none"
        /\ LastPairWins(last_call.intents, PairsA(Field(Document, KeyI).list))

\* two entries with the id "a": samples [x], then canonical x with samples [y, x]
C24_Witness ==
    /\ DirectCall("ava_json")
    /\ IsSchemaA(Document)
    /\ Len(PairsA(Field(Document, KeyI).list)) = 2
    /\ PairsA(Field(Document, KeyI).list)[1] = <<Str(<<"a">>), <<Str(<<"x">>)>> >>
    /\ last_call.intents.val[Str(<<"a">>)] = <<Str(<<"x">>), Str(<<"y">>), Str(<<"x">>)>>

KeyAction == <<"a", "c", "t", "i", "o", "n">>
KeyCmd == <<"c", "m", "d">>
KeySyn == <<"s", "y", "n">>

\* a schema B document: an object whose "commands" is an array of objects
\* {action, cmd, syn} with strings for action and cmd and an array for syn, each of
\* them possibly missing
IsCommandB(c) ==
    /\ TypeOf(c) = "obj"
    /\ IsStrOrAbsent(Field(c, KeyAction))
    /\ IsStrOrAbsent(Field(c, KeyCmd))
    /\ IsListOrAbsent(Field(c, KeySyn))

IsSchemaB(doc) ==
    /\ TypeOf(doc) = "obj"
    /\ TypeOf(Field(doc, KeyCommands)) = "list"
    /\ \A k \in 1..Len(Field(doc, KeyCommands).list) :
          IsCommandB(Field(doc, KeyCommands).list[k])

\* [cmd] followed by syn
ExamplesB(c) ==
    <<Field(c, KeyCmd)>> \o (IF Field(c, KeySyn) = Absent THEN <<>> ELSE Field(c, KeySyn).list)

\* the commands that are not omitted, as <<lowercased action, examples>> pairs in
\* document order
PairsB(commands) ==
    LET kept == {k \in 1..Len(commands) :
                    /\ NonEmptyStr(Field(commands[k], KeyAction))
                    /\ NonEmptyStr(Field(commands[k], KeyCmd))}
        at == SelectAt([k \in 1..Len(commands) |-> k], kept)
    IN  [n \in 1..Len(at) |->
            <<Str(lower(Field(commands[at[n]], KeyAction).str)), ExamplesB(commands[at[n]])>>]

\* C25: parse_vos_json_format gives every command with a non-empty action and a
\* non-empty cmd the intent id equal to the lowercased action, with the examples [cmd]
\* followed by syn in order; commands missing action or cmd are omitted; of several
\* commands whose actions are equal after lowercasing only the list of the last one
\* is in the table.
C25_SchemaBTable ==
    (DirectCall("vos_json") /\ IsSchemaB(Document)) =>
        /\ last_call.raised = "none"
        /\ LastPairWins(last_call.intents, PairsB(Field(Document, KeyCommands).list))

\* the actions "a" and "A" in one document: the table holds the list of the second
C25_Witness ==
    /\ DirectCall("vos_json")
    /\ IsSchemaB(Document)
    /\ Len(Field(Document, KeyCommands).list) = 2
    /\ Field(Field(Document, KeyCommands).list[1], KeyAction) = Str(<<"a">>)
    /\ Field(Field(Document, KeyCommands).list[1], KeyCmd) = Str(<<"x">>)
    /\ Field(Field(Document, KeyCommands).list[2], KeyAction) = Str(<<"A">>)
    /\ DOMAIN last_call.intents.val = {Str(<<"a">>)}
    /\ last_call.intents.val[Str(<<"a">>)] = <<Str(<<"x">>), Str(<<"y">>)>>

(***************************************************************************)
(* C26  the phases of a run                                                *)
(***************************************************************************)

\* the source files have all been parsed and merged, or the table was read from the
\* intents file
TableBuilt ==
    /\ pc \notin {"start", "load_failed", "select", "loading"}
    /\ file_idx = Len(files)
    /\ argv.ava_dirs # <<>> => files = FilesOf(argv.ava_dirs)

StrExamples(examples) ==
    SelectAt(examples, {k \in 1..Len(examples) : TypeOf(examples[k]) = "str"})

\* the calls of the session for the first n intents of the table: intent by intent in
\* table order, example by example in list order
RECURSIVE RunsInTableOrder(_)
RunsInTableOrder(n) ==
    IF n = 0 THEN <<>>
    ELSE RunsInTableOrder(n - 1)
         \o [k \in 1..Len(StrExamples(all_intents.val[all_intents.keys[n]])) |->
                <<all_intents.keys[n], StrExamples(all_intents.val[all_intents.keys[n]])[k]>>]

Aggregated == intent_idx = Len(all_intents.keys)

ArtifactWritten == argv.output_sql \in DOMAIN disk.files \/ argv.output_aot \in DOMAIN disk.files

PhasesInOrder ==
    mode = "main" =>
        /\ (session_runs # <<>> \/ intent_idx > 0) => TableBuilt
        /\ session_runs = RunsInTableOrder(intent_idx)
        /\ ArtifactWritten => (TableBuilt /\ Aggregated)

\* the step is an inference call or a write of an artifact, or follows one
AfterMerge ==
    \/ session_runs' # session_runs
    \/ intent_idx > 0
    \/ disk' # disk
    \/ pc \in {"embedding", "sql_written", "done", "write_failed", "crashed"}

TableFrozen == (mode = "main" /\ AfterMerge) => all_intents' = all_intents

\* C26: the intent table is completely built (every source file parsed and merged)
\* before the first inference call; from then on no step adds, removes or changes an
\* intent or an example of it; inference is called intent by intent in table order and,
\* within an intent, example by example in list order; and no artifact is written
\* before every intent has been aggregated.
C26_PhaseSeparation == [](PhasesInOrder) /\ [][TableFrozen]_vars

\* both artifacts written after three inference calls for two intents read from two files
C26_Witness ==
    /\ mode = "main"
    /\ pc = "done"
    /\ Len(files) = 2
    /\ Len(all_intents.keys) = 2
    /\ Len(session_runs) = 3
    /\ session_runs[1][1] # session_runs[3][1]

(***************************************************************************)
(* C27  the two maps of the vocabulary                                     *)
(***************************************************************************)

\* the line indices of the file (inv_vocab has one entry per line)
LineIndices == DOMAIN tok.inv_vocab

\* C27: after construction from a file the token on line i (0-based) has id i, ids are
\* unique, and the two maps are mutual inverses: vocab[inv_vocab[i]] = i for every line
\* index i and inv_vocab[vocab[t]] = t for every token t; for every file, also with
\* repeated lines, blank lines or lines differing only in surrounding whitespace.
C27_MutualInverses ==
    mode = "tokenizer" =>
        /\ \A i \in LineIndices : tok.vocab[tok.inv_vocab[i]] = i
        /\ \A t, u \in DOMAIN tok.vocab : tok.vocab[t] = tok.vocab[u] => t = u
        /\ \A t \in DOMAIN tok.vocab : tok.inv_vocab[tok.vocab[t]] = t

(***************************************************************************)
(* C28  _wordpiece covers the word                                         *)
(***************************************************************************)

\* the positions 0 = b[1] < b[2] < ... < b[m + 1] = Len(word) that the cuts give
Boundaries(word, cuts) ==
    LET S == cuts \cup {0, Len(word)}
    IN  [k \in 1..Cardinality(S) |-> Nth(S, k)]

\* id stands for word[from:to]: the id of that piece in the vocabulary, or the UNK id
\* for a single character
StandsFor(t, word, from, to, id) ==
    \/ /\ PieceKey(word, from, to - from) \in DOMAIN t.vocab
       /\ id = t.vocab[PieceKey(word, from, to - from)]
    \/ /\ to = from + 1
       /\ id = t.unk_token_id

\* the ids stand, left to right, for pieces that cover the word with no gap or overlap
CoversExactlyOnce(t, word, ids) ==
    \E cuts \in SUBSET (1..(Len(word) - 1)) :
        LET b == Boundaries(word, cuts)
        IN  /\ Len(ids) = Len(b) - 1
            /\ \A k \in 1..Len(ids) : StandsFor(t, word, b[k], b[k + 1], ids[k])

\* C28: _wordpiece returns for every word of length n > 0 and every vocabulary, with
\* between 1 and n ids: every iteration of the outer loop moves the start position
\* forward, and the matched pieces and the single characters given the UNK id cover
\* the word exactly once, left to right.
C28_WordpieceCovers ==
    Called =>
        \A w \in Range(WordsOf(text)) :
            /\ Len(wordpiece(tok, w)) \in 1..Len(w)
            /\ CoversExactlyOnce(tok, w, wordpiece(tok, w))

\* a word of three characters that _wordpiece gives a piece of two characters and UNK
C28_Witness ==
    /\ Called
    /\ \E w \in Range(WordsOf(text)) :
          /\ Len(w) = 3
          /\ Len(wordpiece(tok, w)) = 2
          /\ wordpiece(tok, w)[1] # tok.unk_token_id
          /\ wordpiece(tok, w)[2] = tok.unk_token_id
          /\ tok.unk_token_id \notin {tok.vocab[t] : t \in DOMAIN tok.vocab}

(***************************************************************************)
(* C29  the example count of a record                                      *)
(***************************************************************************)

SqlOfRun == disk.files[argv.output_sql].text

\* the position of the first UpsertTail at or after position p of the text s
TailAfter(s, p) ==
    LET at == {q \in p..Len(s) : OccursAt(s, UpsertTail, q)}
    IN  CHOOSE q \in at : \A r \in at : q <= r

\* the k-th upsert statement of the text s, up to its last value 'BUNDLED_APK'
UpsertBody(s, k) ==
    LET start == Nth(StatementsOf(s, SqlStates(s), KwUpsert), k)
    IN  SubSeq(s, start, TailAfter(s, start) - 1)

\* the last number of the statement is the count
CountWritten(s, k, count) == EndsWith(UpsertBody(s, k), <<",", " ">> \o str_int(count))

\* C29: the example_count written for an intent is the number of examples listed for it
\* in the merged intent table, however many of them failed and were skipped.
C29_CountsListedExamples ==
    (mode = "main" /\ argv.output_sql \in DOMAIN disk.files) =>
        /\ SqlFollows(SqlOfRun, KeptIds)
        /\ \A k \in 1..Len(KeptIds) :
              CountWritten(SqlOfRun, k, Len(all_intents.val[KeptIds[k]]))

\* an intent with two examples, one of which failed, written with the count 2
C29_Witness ==
    /\ mode = "main"
    /\ argv.output_sql \in DOMAIN disk.files
    /\ Len(KeptIds) >= 1
    /\ Len(all_intents.val[KeptIds[1]]) = 2
    /\ Len(Survivors(all_intents.val[KeptIds[1]])) = 1
    /\ CountWritten(SqlOfRun, 1, 2)

(***************************************************************************)
(* C30  the SQL text and the AOT file of one run                           *)
(***************************************************************************)

BothArtifacts ==
    /\ mode = "main"
    /\ argv.output_sql \in DOMAIN disk.files
    /\ argv.output_aot \in DOMAIN disk.files

AotOfRun == disk.files[argv.output_aot].bytes

\* the offset of the k-th record of the file b, whose vectors take 4 * D bytes
RECURSIVE RecordPos(_, _, _)
RecordPos(b, k, D) ==
    IF k = 1 THEN 48
    ELSE RecordPos(b, k - 1, D) + 4 + U32At(b, RecordPos(b, k - 1, D)) + 4 * D

IdBytesAt(b, pos) == SubSeq(b, pos + 5, pos + 4 + U32At(b, pos))
VectorBytesAt(b, pos, D) ==
    SubSeq(b, pos + 5 + U32At(b, pos), pos + 4 + U32At(b, pos) + 4 * D)

\* two upper-case hexadecimal digits per byte
HexText(bytes) ==
    [i \in 1..(2 * Len(bytes)) |->
        HexDigits[(IF i % 2 = 1 THEN bytes[(i + 1) \div 2] \div 16
                   ELSE bytes[i \div 2] % 16) + 1]]

\* the k-th upsert statement of the text s is the one of the id, with a hex literal of
\* the given bytes and the dimension D
UpsertAgrees(s, k, id, bytes, D) ==
    OccursAt(s, UpsertHead \o id \o <<"'", ",", " ", "'">> \o argv.locale
                \o <<"'", ",", " ", "X", "'">> \o HexText(bytes)
                \o <<"'", ",", " ">> \o str_int(D) \o <<",", " ", "'">>,
             Nth(StatementsOf(s, SqlStates(s), KwUpsert), k))

ArtifactsAgree(s, b, ids) ==
    /\ Cardinality(StatementsOf(s, SqlStates(s), KwUpsert)) = Len(ids)
    /\ ~Short(b)
    /\ U32At(b, 8) = Len(ids)
    /\ Len(b) = ImpliedEnd(b, 48, U32At(b, 8), U32At(b, 12))
    /\ \A k \in 1..Len(ids) :
          LET pos == RecordPos(b, k, U32At(b, 12))
          IN  /\ IdBytesAt(b, pos) = encode_utf8(format_id(ids[k]))
              /\ Len(HexText(VectorBytesAt(b, pos, U32At(b, 12)))) = 8 * U32At(b, 12)
              /\ UpsertAgrees(s, k, format_id(ids[k]),
                              VectorBytesAt(b, pos, U32At(b, 12)), U32At(b, 12))

\* C30: the two artifacts of one run agree: they hold the same intent ids, and for every
\* intent the hex literal of its upsert statement has exactly 8 * D hexadecimal digits
\* that encode the bytes of the intent's vector in the AOT file, the dimension field of
\* the statement being the dimension D of the AOT header.
C30_ArtifactsAgree == BothArtifacts => ArtifactsAgree(SqlOfRun, AotOfRun, KeptIds)

\* the same for the runs that reach their last statement
C30_CompleteRunsAgree ==
    (BothArtifacts /\ pc = "done") => ArtifactsAgree(SqlOfRun, AotOfRun, KeptIds)

====
